---- MODULE Spec2Model ----
(***************************************************************************)
(* Verification model of capital-one-interview/coding-samples.             *)
(*                                                                         *)
(* Part 1: 04_lru_cache.py -- LRUCache (hash map + doubly linked list),    *)
(* LRUCacheSimple (OrderedDict) and LFUCache (frequency buckets).          *)
(* One cache object of one of the three classes is built with a capacity   *)
(* and then driven by an arbitrary sequence of get/put calls.              *)
(***************************************************************************)
EXTENDS Integers, Sequences, FiniteSets, TLC

(* ------------------------------ bounds -------------------------------- *)
MaxKey == 2
MaxVal == 0
MaxCap == 2
MaxFreq == 2
\* the keys of the scripted scenario are drawn from 1..MaxScriptKey
MaxScriptKey == 4
\* rate limiters: users 0..MaxUser, clock readings 0..MaxTime, at most
\* MaxCalls calls in a run, limits up to MaxRequests, windows up to MaxWindow
MaxUser == 1
MaxTime == 3
MaxCalls == 4
MaxRequests == 2
MaxWindow == 2
\* bucket capacities up to MaxBucket; refill rates k / RateDen tokens per tick
\* for k in 0..MaxRate
MaxBucket == 2
MaxRate == 2
RateDen == 2
\* elements handed to UnionFind are 0..MaxElem
MaxElem == 3
\* lists of up to MaxTxn transactions of the accounts 0..MaxAccount in the
\* cities 0..MaxCity
MaxTxn == 4
\* the threads that call the limiter are 0..MaxThread
MaxThread == 1
MaxAccount == 1
MaxCity == 2

(* --------------------------- program constants ------------------------ *)
\* the value get returns on a miss ("return -1")
NotFound == -1
\* ListNode.__init__ defaults: key = 0, value = 0
DefaultKey == 0
DefaultValue == 0
\* Python's None, as the value of a prev/next link
None == -1
\* the smallest capacity the constructors are called with; they take any int
MinCap == -1
\* a local variable that holds no key (nothing was evicted by the call)
NoKey == -1

Keys == 0..MaxKey
Values == NotFound..MaxVal
Capacities == MinCap..MaxCap
Impls == {"LRUCache", "LRUCacheSimple", "LFUCache"}
\* test_lru_cache: lfu = LFUCache(2)
ScriptCapacity == 2

(* ------------------------------ helpers ------------------------------- *)
\* dict without key k
DictDel(d, k) == [x \in (DOMAIN d) \ {k} |-> d[x]]
\* dict with d[k] = v
DictSet(d, k, v) == [x \in (DOMAIN d) \cup {k} |-> IF x = k THEN v ELSE d[x]]
EmptyDict == [x \in {} |-> 0]

\* sequence s without the element k
RECURSIVE SeqDrop(_, _)
SeqDrop(s, k) ==
    IF s = <<>> THEN <<>>
    ELSE IF Head(s) = k THEN SeqDrop(Tail(s), k)
         ELSE <<Head(s)>> \o SeqDrop(Tail(s), k)

SeqSet(s) == {s[i] : i \in 1..Len(s)}

(***************************************************************************)
(* LRUCache: heap of ListNode objects.  Node ids 0 and 1 are the head and  *)
(* tail sentinels; the other ids are allocated by ListNode(key, value) and *)
(* freed when nothing refers to the node any more.                         *)
(***************************************************************************)
HeadId == 0
TailId == 1
NodeIds == 2..(MaxCap + 3)

ListNode(key, value) == [key |-> key, value |-> value, prev |-> None, next |-> None]

\* LRUCache.__init__
LRUCache_init(capacity) ==
    [capacity |-> capacity,
     cache |-> EmptyDict,
     node |-> [n \in {HeadId, TailId} |->
                 IF n = HeadId
                 THEN [ListNode(DefaultKey, DefaultValue) EXCEPT !.next = TailId]
                 ELSE [ListNode(DefaultKey, DefaultValue) EXCEPT !.prev = HeadId]]]

\* an intermediate result: the cache so far and whether an exception is in flight
Ok(c) == [c |-> c, raised |-> FALSE]
Raise(c) == [c |-> c, raised |-> TRUE]

\* variant: the node is linked in before tail
_add_to_head_at_tail(c, n) ==
    LET c1 == [c EXCEPT !.node[n].next = TailId]
        c2 == [c1 EXCEPT !.node[n].prev = c1.node[TailId].prev]
        tp == c2.node[TailId].prev
    IN  IF tp = None THEN Raise(c2)
        ELSE LET c3 == [c2 EXCEPT !.node[tp].next = n]
             IN  Ok([c3 EXCEPT !.node[TailId].prev = n])

\* variant: "self.head.next.prev = node" is left out
_add_to_head_one_way(c, n) ==
    LET c1 == [c EXCEPT !.node[n].prev = HeadId]
        c2 == [c1 EXCEPT !.node[n].next = c1.node[HeadId].next]
    IN  Ok([c2 EXCEPT !.node[HeadId].next = n])

\* LRUCache._add_to_head
_add_to_head(c, n) ==
    LET c1 == [c EXCEPT !.node[n].prev = HeadId]
        c2 == [c1 EXCEPT !.node[n].next = c1.node[HeadId].next]
        hn == c2.node[HeadId].next
    IN  IF hn = None THEN Raise(c2)
        ELSE LET c3 == [c2 EXCEPT !.node[hn].prev = n]
             IN  Ok([c3 EXCEPT !.node[HeadId].next = n])

\* LRUCache._remove_node
_remove_node(c, n) ==
    LET p == c.node[n].prev
    IN  IF p = None THEN Raise(c)
        ELSE LET c1 == [c EXCEPT !.node[p].next = c.node[n].next]
                 x == c1.node[n].next
             IN  IF x = None THEN Raise(c1)
                 ELSE Ok([c1 EXCEPT !.node[x].prev = c1.node[n].prev])

\* variant: the node is left where it is
_move_to_head_skip(c, n) == Ok(c)

\* LRUCache._move_to_head
_move_to_head(c, n) ==
    LET r == _remove_node(c, n)
    IN  IF r.raised THEN r ELSE _add_to_head(r.c, n)

\* variant: "lru = self.head.next"
_pop_tail_head(c) ==
    LET lru == c.node[HeadId].next
    IN  IF lru = None THEN [c |-> c, raised |-> TRUE, lru |-> lru]
        ELSE LET r == _remove_node(c, lru)
             IN  [c |-> r.c, raised |-> r.raised, lru |-> lru]

\* LRUCache._pop_tail; lru is the node it returns
_pop_tail(c) ==
    LET lru == c.node[TailId].prev
    IN  IF lru = None THEN [c |-> c, raised |-> TRUE, lru |-> lru]
        ELSE LET r == _remove_node(c, lru)
             IN  [c |-> r.c, raised |-> r.raised, lru |-> lru]

\* the nodes some live reference leads to: the sentinels, the dict's values,
\* and whatever those link to
RECURSIVE Reachable(_, _)
Reachable(c, S) ==
    LET T == S \cup (({c.node[n].prev : n \in S} \cup {c.node[n].next : n \in S}) \ {None})
    IN  IF T = S THEN S ELSE Reachable(c, T)

\* the nodes met from head by following next, in that order
RECURSIVE Chain(_, _, _)
Chain(c, n, seq) ==
    IF n \in {None, HeadId, TailId} \/ n \in SeqSet(seq) \/ n \notin DOMAIN c.node THEN seq
    ELSE Chain(c, c.node[n].next, Append(seq, n))

\* a set of node ids as an ascending sequence
RECURSIVE Ascending(_)
Ascending(S) ==
    IF S = {} THEN <<>>
    ELSE LET m == CHOOSE x \in S : \A y \in S : x <= y
         IN  <<m>> \o Ascending(S \ {m})

\* Object identities cannot be observed by the program, so the heap is kept
\* up to renaming: the nodes on the list are numbered in list order and any
\* other live node after them.
Renumber(c) ==
    LET chain == Chain(c, c.node[HeadId].next, <<>>)
        olds == chain \o Ascending((DOMAIN c.node) \ ({HeadId, TailId} \cup SeqSet(chain)))
        new(n) == IF n \in {None, HeadId, TailId} THEN n
                  ELSE TailId + (CHOOSE i \in 1..Len(olds) : olds[i] = n)
        old(m) == IF m \in {HeadId, TailId} THEN m ELSE olds[m - TailId]
    IN  [c EXCEPT
           !.cache = [k \in DOMAIN c.cache |-> new(c.cache[k])],
           !.node = [m \in {HeadId, TailId} \cup {TailId + i : i \in 1..Len(olds)} |->
                       [c.node[old(m)] EXCEPT !.prev = new(c.node[old(m)].prev),
                                              !.next = new(c.node[old(m)].next)]]]

\* reference counting: a node nothing refers to is freed when the call returns
Collect(c) ==
    LET live == Reachable(c, {HeadId, TailId} \cup {c.cache[k] : k \in DOMAIN c.cache})
    IN  Renumber([c EXCEPT !.node = [n \in live |-> c.node[n]]])

\* a fresh object identity for ListNode(...)
NewNodeId(c) == CHOOSE n \in NodeIds : n \notin DOMAIN c.node /\ \A m \in NodeIds : m < n => m \in DOMAIN c.node

\* what a call hands back: the object after the call, the returned value,
\* whether it raised, and the key it evicted (NoKey if none)
Result(c, ret, raised, evicted) == [c |-> c, ret |-> ret, raised |-> raised, evicted |-> evicted]

\* LRUCache.get
LRUCache_get(c, key) ==
    IF key \notin DOMAIN c.cache THEN Result(c, NotFound, FALSE, NoKey)
    ELSE LET n == c.cache[key]
             r == _move_to_head(c, n)
         IN  IF r.raised THEN Result(Collect(r.c), 0, TRUE, NoKey)
             ELSE Result(Collect(r.c), r.c.node[n].value, FALSE, NoKey)

\* variant: ">" for ">="
LRUCache_full_gt(c) == Cardinality(DOMAIN c.cache) > c.capacity

\* variant: off by one, full one entry early
LRUCache_full_early(c) == Cardinality(DOMAIN c.cache) + 1 >= c.capacity

\* "len(self.cache) >= self.capacity"
LRUCache_full(c) == Cardinality(DOMAIN c.cache) >= c.capacity

\* the else branch of LRUCache.put once room has been made
LRUCache_insert(c, key, value, evicted) ==
    LET n == NewNodeId(c)
        c1 == [c EXCEPT !.node = DictSet(c.node, n, ListNode(key, value))]
        c2 == [c1 EXCEPT !.cache = DictSet(c1.cache, key, n)]
        r == _add_to_head(c2, n)
    IN  Result(Collect(r.c), 0, r.raised, evicted)

\* LRUCache.put
LRUCache_put(c, key, value) ==
    IF key \in DOMAIN c.cache
    THEN LET n == c.cache[key]
             c1 == [c EXCEPT !.node[n].value = value]
             r == _move_to_head(c1, n)
         IN  Result(Collect(r.c), 0, r.raised, NoKey)
    ELSE IF LRUCache_full(c)
         THEN LET p == _pop_tail(c)
              IN  IF p.raised THEN Result(Collect(p.c), 0, TRUE, NoKey)
                  ELSE LET k == p.c.node[p.lru].key
                       IN  IF k \notin DOMAIN p.c.cache
                           THEN Result(Collect(p.c), 0, TRUE, NoKey)
                           ELSE LRUCache_insert([p.c EXCEPT !.cache = DictDel(p.c.cache, k)],
                                                key, value, k)
         ELSE LRUCache_insert(c, key, value, NoKey)

\* variant: the new node is stored and linked first, the tail popped after
LRUCache_put_steps_insert_first(c, key, value) ==
    LET n == NewNodeId(c)
        s1 == [c EXCEPT !.node = DictSet(c.node, n, ListNode(key, value))]
        s2 == [s1 EXCEPT !.cache = DictSet(s1.cache, key, n)]
        s3 == [s2 EXCEPT !.node[n].prev = HeadId]
        s4 == [s3 EXCEPT !.node[n].next = s3.node[HeadId].next]
        s5 == [s4 EXCEPT !.node[s4.node[HeadId].next].prev = n]
        s6 == [s5 EXCEPT !.node[HeadId].next = n]
        lru == s6.node[TailId].prev
        s7 == [s6 EXCEPT !.node[s6.node[lru].prev].next = s6.node[lru].next]
        s8 == [s7 EXCEPT !.node[s7.node[lru].next].prev = s7.node[lru].prev]
        s9 == [s8 EXCEPT !.cache = DictDel(s8.cache, s8.node[lru].key)]
    IN  <<c, s1, s2, s3, s4, s5, s6, s7, s8, s9>>

\* LRUCache.put of an absent key on a full cache, statement by statement:
\* the object before the call and after each of the statements
\*   57, 58 (_pop_tail -> _remove_node), 95 (del), 97 (ListNode), 98 (store),
\*   50, 51, 52, 53 (_add_to_head)
LRUCache_put_steps(c, key, value) ==
    LET lru == c.node[TailId].prev
        s1 == [c EXCEPT !.node[c.node[lru].prev].next = c.node[lru].next]
        s2 == [s1 EXCEPT !.node[s1.node[lru].next].prev = s1.node[lru].prev]
        s3 == [s2 EXCEPT !.cache = DictDel(s2.cache, s2.node[lru].key)]
        n == NewNodeId(s3)
        s4 == [s3 EXCEPT !.node = DictSet(s3.node, n, ListNode(key, value))]
        s5 == [s4 EXCEPT !.cache = DictSet(s4.cache, key, n)]
        s6 == [s5 EXCEPT !.node[n].prev = HeadId]
        s7 == [s6 EXCEPT !.node[n].next = s6.node[HeadId].next]
        s8 == [s7 EXCEPT !.node[s7.node[HeadId].next].prev = n]
        s9 == [s8 EXCEPT !.node[HeadId].next = n]
    IN  <<c, s1, s2, s3, s4, s5, s6, s7, s8, s9>>

\* the nodes met from tail by following prev, in that order
RECURSIVE ChainBack(_, _, _)
ChainBack(c, n, seq) ==
    IF n \in {None, HeadId, TailId} \/ n \in SeqSet(seq) \/ n \notin DOMAIN c.node THEN seq
    ELSE ChainBack(c, c.node[n].prev, Append(seq, n))

\* the keys on the list, whichever way it is walked
LRUCache_listed(c) ==
    {c.node[n].key : n \in SeqSet(Chain(c, c.node[HeadId].next, <<>>))
                          \cup SeqSet(ChainBack(c, c.node[TailId].prev, <<>>))}

(***************************************************************************)
(* LRUCacheSimple: the OrderedDict is a sequence of items, oldest first.   *)
(***************************************************************************)
Item(key, value) == [key |-> key, value |-> value]

\* the keys of an OrderedDict
OD_keys(od) == {od[i].key : i \in 1..Len(od)}

\* od[key]
OD_get(od, key) == (CHOOSE i \in 1..Len(od) : od[i].key = key)

\* variant: move_to_end(key, last=False)
OD_move_to_end_first(od, key) ==
    LET i == OD_get(od, key)
    IN  <<od[i]>> \o SubSeq(od, 1, i - 1) \o SubSeq(od, i + 1, Len(od))

\* OrderedDict.move_to_end(key)
OD_move_to_end(od, key) ==
    LET i == OD_get(od, key)
    IN  SubSeq(od, 1, i - 1) \o SubSeq(od, i + 1, Len(od)) \o <<od[i]>>

\* variant: a key it holds keeps its old value
OD_set_keep(od, key, value) ==
    IF key \in OD_keys(od) THEN od ELSE Append(od, Item(key, value))

\* od[key] = value: in place for a key it holds, at the end for a new one
OD_set(od, key, value) ==
    IF key \in OD_keys(od)
    THEN [od EXCEPT ![OD_get(od, key)].value = value]
    ELSE Append(od, Item(key, value))

\* LRUCacheSimple.__init__
LRUCacheSimple_init(capacity) == [capacity |-> capacity, cache |-> <<>>]

\* LRUCacheSimple.get
LRUCacheSimple_get(c, key) ==
    IF key \notin OD_keys(c.cache) THEN Result(c, NotFound, FALSE, NoKey)
    ELSE LET od == OD_move_to_end(c.cache, key)
         IN  Result([c EXCEPT !.cache = od], od[OD_get(od, key)].value, FALSE, NoKey)

\* variant: ">=" for ">"
LRUCacheSimple_over_ge(c) == Len(c.cache) >= c.capacity

\* "len(self.cache) > self.capacity"
LRUCacheSimple_over(c) == Len(c.cache) > c.capacity

\* LRUCacheSimple.put
LRUCacheSimple_put(c, key, value) ==
    LET od1 == IF key \in OD_keys(c.cache) THEN OD_move_to_end(c.cache, key) ELSE c.cache
        c2 == [c EXCEPT !.cache = OD_set(od1, key, value)]
    IN  IF LRUCacheSimple_over(c2)
        THEN Result([c2 EXCEPT !.cache = Tail(c2.cache)], 0, FALSE, Head(c2.cache).key)
        ELSE Result(c2, 0, FALSE, NoKey)

(***************************************************************************)
(* LFUCache: freq_to_keys maps a frequency to an OrderedDict of keys (all  *)
(* values None), kept here as a sequence of keys, oldest first.            *)
(***************************************************************************)
\* LFUCache.__init__
LFUCache_init(capacity) ==
    [capacity |-> capacity,
     min_freq |-> 0,
     key_to_val |-> EmptyDict,
     key_to_freq |-> EmptyDict,
     freq_to_keys |-> EmptyDict]

\* variant: the emptiness test is left out
LFU_advance_min_unchecked(c, freq) == c.min_freq = freq

\* variant: min_freq is compared with the frequency after the increment
LFU_advance_min_stale(c, freq) == c.freq_to_keys[freq] = <<>> /\ c.min_freq = freq + 1

\* "if not self.freq_to_keys[freq] and self.min_freq == freq"
LFU_advance_min(c, freq) == c.freq_to_keys[freq] = <<>> /\ c.min_freq = freq

\* variant: the key is put in front of the bucket
LFU_bucket_add_front(bucket, key) == IF key \in SeqSet(bucket) THEN bucket ELSE <<key>> \o bucket

\* "self.freq_to_keys[freq + 1][key] = None": a new key goes to the end
LFU_bucket_add(bucket, key) == IF key \in SeqSet(bucket) THEN bucket ELSE Append(bucket, key)

\* variant: "self.key_to_freq[key] = freq + 1" is left out
_update_freq_no_count(c, key) ==
    IF key \notin DOMAIN c.key_to_freq THEN Raise(c)
    ELSE
    LET freq == c.key_to_freq[key]
    IN  IF freq \notin DOMAIN c.freq_to_keys THEN Raise(c)
        ELSE IF key \notin SeqSet(c.freq_to_keys[freq]) THEN Raise(c)
        ELSE
        LET c2 == [c EXCEPT !.freq_to_keys[freq] = SeqDrop(c.freq_to_keys[freq], key)]
            c3 == IF LFU_advance_min(c2, freq) THEN [c2 EXCEPT !.min_freq = freq + 1] ELSE c2
            c4 == IF freq + 1 \notin DOMAIN c3.freq_to_keys
                  THEN [c3 EXCEPT !.freq_to_keys = DictSet(c3.freq_to_keys, freq + 1, <<>>)]
                  ELSE c3
        IN  Ok([c4 EXCEPT !.freq_to_keys[freq + 1] = LFU_bucket_add(c4.freq_to_keys[freq + 1], key)])

\* variant: "del self.freq_to_keys[freq][key]" is left out
_update_freq_keep_old(c, key) ==
    IF key \notin DOMAIN c.key_to_freq THEN Raise(c)
    ELSE
    LET freq == c.key_to_freq[key]
        c1 == [c EXCEPT !.key_to_freq[key] = freq + 1]
    IN  IF freq \notin DOMAIN c1.freq_to_keys THEN Raise(c1)
        ELSE
        LET c3 == IF LFU_advance_min(c1, freq) THEN [c1 EXCEPT !.min_freq = freq + 1] ELSE c1
            c4 == IF freq + 1 \notin DOMAIN c3.freq_to_keys
                  THEN [c3 EXCEPT !.freq_to_keys = DictSet(c3.freq_to_keys, freq + 1, <<>>)]
                  ELSE c3
        IN  Ok([c4 EXCEPT !.freq_to_keys[freq + 1] = LFU_bucket_add(c4.freq_to_keys[freq + 1], key)])

\* LFUCache._update_freq
_update_freq(c, key) ==
    IF key \notin DOMAIN c.key_to_freq THEN Raise(c)
    ELSE
    LET freq == c.key_to_freq[key]
        c1 == [c EXCEPT !.key_to_freq[key] = freq + 1]
    IN  IF freq \notin DOMAIN c1.freq_to_keys THEN Raise(c1)
        ELSE IF key \notin SeqSet(c1.freq_to_keys[freq]) THEN Raise(c1)
        ELSE
        LET c2 == [c1 EXCEPT !.freq_to_keys[freq] = SeqDrop(c1.freq_to_keys[freq], key)]
            c3 == IF LFU_advance_min(c2, freq) THEN [c2 EXCEPT !.min_freq = freq + 1] ELSE c2
            c4 == IF freq + 1 \notin DOMAIN c3.freq_to_keys
                  THEN [c3 EXCEPT !.freq_to_keys = DictSet(c3.freq_to_keys, freq + 1, <<>>)]
                  ELSE c3
        IN  Ok([c4 EXCEPT !.freq_to_keys[freq + 1] = LFU_bucket_add(c4.freq_to_keys[freq + 1], key)])

\* variant: a miss stores the marker under the key, as dict.setdefault would
LFUCache_get_setdefault(c, key) ==
    IF key \notin DOMAIN c.key_to_val
    THEN Result([c EXCEPT !.key_to_val = DictSet(c.key_to_val, key, NotFound)], NotFound, FALSE, NoKey)
    ELSE LET r == _update_freq(c, key)
         IN  IF r.raised THEN Result(r.c, 0, TRUE, NoKey)
             ELSE Result(r.c, r.c.key_to_val[key], FALSE, NoKey)

\* variant: "return self.key_to_freq[key]"
LFUCache_get_freq(c, key) ==
    IF key \notin DOMAIN c.key_to_val THEN Result(c, NotFound, FALSE, NoKey)
    ELSE LET r == _update_freq(c, key)
         IN  IF r.raised THEN Result(r.c, 0, TRUE, NoKey)
             ELSE Result(r.c, r.c.key_to_freq[key], FALSE, NoKey)

\* LFUCache.get
LFUCache_get(c, key) ==
    IF key \notin DOMAIN c.key_to_val THEN Result(c, NotFound, FALSE, NoKey)
    ELSE LET r == _update_freq(c, key)
         IN  IF r.raised THEN Result(r.c, 0, TRUE, NoKey)
             ELSE Result(r.c, r.c.key_to_val[key], FALSE, NoKey)

\* variant: ">" for ">="
LFUCache_full_gt(c) == Cardinality(DOMAIN c.key_to_val) > c.capacity

\* "len(self.key_to_val) >= self.capacity"
LFUCache_full(c) == Cardinality(DOMAIN c.key_to_val) >= c.capacity

\* variant: popitem(last=True)
LFU_popitem_last(bucket) == bucket[Len(bucket)]

\* "self.freq_to_keys[self.min_freq].popitem(last=False)": the key it pops
LFU_popitem(bucket) == Head(bucket)

\* variant: "self.min_freq = 1" is left out
LFUCache_insert_keep_min(c, key, value, evicted) ==
    LET c1 == [c EXCEPT !.key_to_val = DictSet(c.key_to_val, key, value),
                        !.key_to_freq = DictSet(c.key_to_freq, key, 1)]
        c2 == IF 1 \notin DOMAIN c1.freq_to_keys
              THEN [c1 EXCEPT !.freq_to_keys = DictSet(c1.freq_to_keys, 1, <<>>)]
              ELSE c1
    IN  Result([c2 EXCEPT !.freq_to_keys[1] = LFU_bucket_add(c2.freq_to_keys[1], key)],
               0, FALSE, evicted)

\* the tail of LFUCache.put: "Add new key"
LFUCache_insert(c, key, value, evicted) ==
    LET c1 == [c EXCEPT !.key_to_val = DictSet(c.key_to_val, key, value),
                        !.key_to_freq = DictSet(c.key_to_freq, key, 1),
                        !.min_freq = 1]
        c2 == IF 1 \notin DOMAIN c1.freq_to_keys
              THEN [c1 EXCEPT !.freq_to_keys = DictSet(c1.freq_to_keys, 1, <<>>)]
              ELSE c1
    IN  Result([c2 EXCEPT !.freq_to_keys[1] = LFU_bucket_add(c2.freq_to_keys[1], key)],
               0, FALSE, evicted)

\* variant: "<" for "<="
LFU_no_capacity_lt(c) == c.capacity < 0

\* "if self.capacity <= 0"
LFU_no_capacity(c) == c.capacity <= 0

\* LFUCache.put
LFUCache_put(c, key, value) ==
    IF LFU_no_capacity(c) THEN Result(c, 0, FALSE, NoKey)
    ELSE IF key \in DOMAIN c.key_to_val
    THEN LET r == _update_freq([c EXCEPT !.key_to_val[key] = value], key)
         IN  Result(r.c, 0, r.raised, NoKey)
    ELSE IF LFUCache_full(c)
    THEN IF c.min_freq \notin DOMAIN c.freq_to_keys THEN Result(c, 0, TRUE, NoKey)
         ELSE IF c.freq_to_keys[c.min_freq] = <<>> THEN Result(c, 0, TRUE, NoKey)
         ELSE
         LET evict_key == LFU_popitem(c.freq_to_keys[c.min_freq])
             c1 == [c EXCEPT !.freq_to_keys[c.min_freq] = SeqDrop(c.freq_to_keys[c.min_freq], evict_key)]
         IN  IF evict_key \notin DOMAIN c1.key_to_val THEN Result(c1, 0, TRUE, NoKey)
             ELSE LET c2 == [c1 EXCEPT !.key_to_val = DictDel(c1.key_to_val, evict_key)]
                  IN  IF evict_key \notin DOMAIN c2.key_to_freq THEN Result(c2, 0, TRUE, NoKey)
                      ELSE LFUCache_insert([c2 EXCEPT !.key_to_freq = DictDel(c2.key_to_freq, evict_key)],
                                           key, value, evict_key)
    ELSE LFUCache_insert(c, key, value, NoKey)

\* LFUCache.put of an absent key on a full cache, statement by statement:
\* the object before the call and after each of the statements
\*   186 (popitem), 187, 188 (del), 191, 192, 193, 195-196 (bucket 1), 197
LFUCache_put_steps(c, key, value) ==
    LET evict_key == LFU_popitem(c.freq_to_keys[c.min_freq])
        t1 == [c EXCEPT !.freq_to_keys[c.min_freq] = SeqDrop(c.freq_to_keys[c.min_freq], evict_key)]
        t2 == [t1 EXCEPT !.key_to_val = DictDel(t1.key_to_val, evict_key)]
        t3 == [t2 EXCEPT !.key_to_freq = DictDel(t2.key_to_freq, evict_key)]
        t4 == [t3 EXCEPT !.key_to_val = DictSet(t3.key_to_val, key, value)]
        t5 == [t4 EXCEPT !.key_to_freq = DictSet(t4.key_to_freq, key, 1)]
        t6 == [t5 EXCEPT !.min_freq = 1]
        t7 == IF 1 \notin DOMAIN t6.freq_to_keys
              THEN [t6 EXCEPT !.freq_to_keys = DictSet(t6.freq_to_keys, 1, <<>>)]
              ELSE t6
        t8 == [t7 EXCEPT !.freq_to_keys[1] = LFU_bucket_add(t7.freq_to_keys[1], key)]
    IN  <<c, t1, t2, t3, t4, t5, t6, t7, t8>>

\* the keys held by the buckets
LFUCache_listed(c) == UNION {SeqSet(c.freq_to_keys[f]) : f \in DOMAIN c.freq_to_keys}

(***************************************************************************)
(* State: the object under test (impl names its class; the objects of the  *)
(* other two classes stay as constructed), the last call and its outcome,  *)
(* and the history the properties speak about.                             *)
(***************************************************************************)
VARIABLES impl, lru, simple, lfu, last, order, count, putOnly, lastPut, putSeq

\* the scripted LFUCache scenario: the keys it uses, the number of calls made
\* and the outcome of each
VARIABLES script, pc, rets

scenario == <<script, pc, rets>>

\* 02_rate_limiter.py: the clock (time.time()), the number of calls made so
\* far, the limiter objects of a first and of a second run, the outcome of the
\* last call in each run, the user the two runs agree on, and per user the
\* time and the answer of each of the user's calls in the first run
VARIABLES now, calls, sliding, bucket, sliding2, bucket2, reply, reply2, watched, log

limiters == <<now, calls, sliding, bucket, sliding2, bucket2, reply, reply2, watched, log>>

\* 03_account_merging.py: the UnionFind object, the last call made on it, and
\* for every element the set of elements that the union calls so far link it to
VARIABLES uf, ufcall, linked

unionfind == <<uf, ufcall, linked>>

\* 01_transaction_analysis.py: the list of transactions handed to the two
\* functions, and what find_suspicious_accounts and
\* find_suspicious_accounts_optimized returned for it
VARIABLES transactions, basic, optimized

analysis == <<transactions, basic, optimized>>

\* LFUCache: the keys that were evicted at a frequency above 1
VARIABLES forgotten

\* an LRUCache and an LRUCacheSimple fed the same calls: the last call and
\* what each of the two returned
VARIABLES both

\* SlidingWindowRateLimiter called from several threads: for each thread the
\* line it is at and its local variables; and the objects the limiter's two
\* defaultdicts refer to (the deques, the locks that are held) with the way
\* the build runs defaultdict.__missing__
VARIABLES threads, heap

\* the LeakyBucketRateLimiter object
VARIABLES leaky

extras == <<forgotten, both, threads, heap, leaky>>

\* the state of the parts that a run of the caches does not use
others == <<scenario, limiters, unionfind, analysis, extras>>

ScenarioIdle ==
    /\ script = <<>> /\ pc = 0 /\ rets = <<>>

LimitersIdle ==
    /\ now = 0 /\ calls = 0
    /\ sliding = <<>> /\ bucket = <<>> /\ sliding2 = <<>> /\ bucket2 = <<>>
    /\ reply = <<>> /\ reply2 = <<>> /\ watched = 0 /\ log = <<>>

UnionFindIdle ==
    /\ uf = <<>> /\ ufcall = <<>> /\ linked = <<>>

AnalysisIdle ==
    /\ transactions = <<>> /\ basic = <<>> /\ optimized = <<>>

ExtrasIdle ==
    /\ forgotten = <<>> /\ both = <<>> /\ threads = <<>> /\ heap = <<>> /\ leaky = <<>>

\* no cache object is built
CachesIdle ==
    /\ impl = "LRUCache"
    /\ lru = <<>> /\ simple = <<>> /\ lfu = <<>>
    /\ last = <<>> /\ order = <<>> /\ count = <<>>
    /\ putOnly = TRUE /\ lastPut = <<>> /\ putSeq = <<>>

caches == <<impl, lru, simple, lfu, last, order, count, putOnly, lastPut, putSeq>>

OthersIdle == ScenarioIdle /\ LimitersIdle /\ UnionFindIdle /\ AnalysisIdle /\ ExtrasIdle

vars == <<impl, lru, simple, lfu, last, order, count, putOnly, lastPut, putSeq, others>>

\* the call that was made last: op "new" is the constructor
Call(op, key, value, r) ==
    [op |-> op, key |-> key, value |-> value,
     ret |-> r.ret, raised |-> r.raised, evicted |-> r.evicted]

\* the keys an object holds
LRUCache_keys(c) == DOMAIN c.cache
LRUCacheSimple_keys(c) == OD_keys(c.cache)
LFUCache_keys(c) == DOMAIN c.key_to_val

Capacity == CASE impl = "LRUCache" -> lru.capacity
              [] impl = "LRUCacheSimple" -> simple.capacity
              [] OTHER -> lfu.capacity

StoredKeys == CASE impl = "LRUCache" -> LRUCache_keys(lru)
                [] impl = "LRUCacheSimple" -> LRUCacheSimple_keys(simple)
                [] OTHER -> LFUCache_keys(lfu)

\* cache = Class(capacity)
Init ==
    /\ impl \in Impls
    /\ \E capacity \in Capacities :
          /\ lru = LRUCache_init(capacity)
          /\ simple = LRUCacheSimple_init(capacity)
          /\ lfu = LFUCache_init(capacity)
    /\ last = Call("new", 0, 0, Result(0, 0, FALSE, NoKey))
    /\ order = <<>>
    /\ count = EmptyDict
    /\ putOnly = TRUE
    /\ lastPut = EmptyDict
    /\ putSeq = <<>>
    /\ OthersIdle

(***************************************************************************)
(* History of the calls, kept beside the object and never read by it:      *)
(*   order   the stored keys by their last touch (the put that inserted or *)
(*           updated the key, or a get that hit it), oldest first;         *)
(*   count   LFUCache only: per stored key, 1 at its insertion plus 1 for  *)
(*           each later get hit or put update;                             *)
(*   putOnly no get has been called yet;                                   *)
(*   lastPut while putOnly, the value of the last put of each key;         *)
(*   putSeq  LRUCache only: the keys put so far, in call order, as long as *)
(*           the calls were puts of pairwise distinct keys; <<NoKey>> from *)
(*           then on.                                                      *)
(* pre and post are the keys stored before and after the call.             *)
(***************************************************************************)
\* every call so far was a put, each of a key not put before
DistinctPuts == NoKey \notin SeqSet(putSeq)

Touched(op, key, pre, post) == IF op = "get" THEN key \in pre ELSE key \in post

Record(op, key, value, pre, post, r) ==
    LET touched == Touched(op, key, pre, post)
        o == IF touched THEN Append(SeqDrop(order, key), key) ELSE order
    IN  /\ last' = Call(op, key, value, r)
        /\ order' = SelectSeq(o, LAMBDA k : k \in post)
        /\ count' = IF impl = "LFUCache"
                    THEN [k \in post |->
                            IF k = key /\ touched
                            THEN (IF k \in pre THEN count[k] + 1 ELSE 1)
                            ELSE IF k \in DOMAIN count THEN count[k] ELSE 0]
                    ELSE count
        /\ putOnly' = (putOnly /\ op = "put")
        /\ lastPut' = IF putOnly /\ op = "put" THEN DictSet(lastPut, key, value) ELSE EmptyDict
        /\ putSeq' = IF impl # "LRUCache" THEN putSeq
                     ELSE IF op = "put" /\ DistinctPuts /\ key \notin SeqSet(putSeq)
                     THEN Append(putSeq, key) ELSE <<NoKey>>
        /\ UNCHANGED others

(* ------------------------------ actions ------------------------------- *)
Get_LRUCache(key) ==
    /\ impl = "LRUCache"
    /\ \E r \in {LRUCache_get(lru, key)} :
           /\ lru' = r.c
           /\ Record("get", key, 0, LRUCache_keys(lru), LRUCache_keys(r.c), r)
    /\ UNCHANGED <<impl, simple, lfu>>

Put_LRUCache(key, value) ==
    /\ impl = "LRUCache"
    /\ \E r \in {LRUCache_put(lru, key, value)} :
           /\ lru' = r.c
           /\ Record("put", key, value, LRUCache_keys(lru), LRUCache_keys(r.c), r)
    /\ UNCHANGED <<impl, simple, lfu>>

Get_LRUCacheSimple(key) ==
    /\ impl = "LRUCacheSimple"
    /\ \E r \in {LRUCacheSimple_get(simple, key)} :
           /\ simple' = r.c
           /\ Record("get", key, 0, LRUCacheSimple_keys(simple), LRUCacheSimple_keys(r.c), r)
    /\ UNCHANGED <<impl, lru, lfu>>

Put_LRUCacheSimple(key, value) ==
    /\ impl = "LRUCacheSimple"
    /\ \E r \in {LRUCacheSimple_put(simple, key, value)} :
           /\ simple' = r.c
           /\ Record("put", key, value, LRUCacheSimple_keys(simple), LRUCacheSimple_keys(r.c), r)
    /\ UNCHANGED <<impl, lru, lfu>>

\* the frequency counters are unbounded in the code; the model stops
\* touching a key whose frequency has reached MaxFreq
LFU_within_bound(key) ==
    key \in DOMAIN lfu.key_to_freq => lfu.key_to_freq[key] < MaxFreq

Get_LFUCache(key) ==
    /\ impl = "LFUCache"
    /\ LFU_within_bound(key)
    /\ \E r \in {LFUCache_get(lfu, key)} :
           /\ lfu' = r.c
           /\ Record("get", key, 0, LFUCache_keys(lfu), LFUCache_keys(r.c), r)
    /\ UNCHANGED <<impl, lru, simple>>

Put_LFUCache(key, value) ==
    /\ impl = "LFUCache"
    /\ LFU_within_bound(key)
    /\ \E r \in {LFUCache_put(lfu, key, value)} :
           /\ lfu' = r.c
           /\ Record("put", key, value, LFUCache_keys(lfu), LFUCache_keys(r.c), r)
    /\ UNCHANGED <<impl, lru, simple>>

Next ==
    \/ \E key \in Keys : Get_LRUCache(key)
    \/ \E key \in Keys, value \in Values : Put_LRUCache(key, value)
    \/ \E key \in Keys : Get_LRUCacheSimple(key)
    \/ \E key \in Keys, value \in Values : Put_LRUCacheSimple(key, value)
    \/ \E key \in Keys : Get_LFUCache(key)
    \/ \E key \in Keys, value \in Values : Put_LFUCache(key, value)

Spec == Init /\ [][Next]_vars

(***************************************************************************)
(* The same calls on the same objects with the history left as it was at   *)
(* construction: the states of SpecObject are the states of the objects.   *)
(***************************************************************************)
history == <<last, order, count, putOnly, lastPut, putSeq>>

Object_Get_LRUCache(key) ==
    /\ impl = "LRUCache"
    /\ lru' = LRUCache_get(lru, key).c
    /\ UNCHANGED <<impl, simple, lfu, history, others>>

Object_Put_LRUCache(key, value) ==
    /\ impl = "LRUCache"
    /\ lru' = LRUCache_put(lru, key, value).c
    /\ UNCHANGED <<impl, simple, lfu, history, others>>

Object_Get_LRUCacheSimple(key) ==
    /\ impl = "LRUCacheSimple"
    /\ simple' = LRUCacheSimple_get(simple, key).c
    /\ UNCHANGED <<impl, lru, lfu, history, others>>

Object_Put_LRUCacheSimple(key, value) ==
    /\ impl = "LRUCacheSimple"
    /\ simple' = LRUCacheSimple_put(simple, key, value).c
    /\ UNCHANGED <<impl, lru, lfu, history, others>>

Object_Get_LFUCache(key) ==
    /\ impl = "LFUCache"
    /\ LFU_within_bound(key)
    /\ lfu' = LFUCache_get(lfu, key).c
    /\ UNCHANGED <<impl, lru, simple, history, others>>

Object_Put_LFUCache(key, value) ==
    /\ impl = "LFUCache"
    /\ LFU_within_bound(key)
    /\ lfu' = LFUCache_put(lfu, key, value).c
    /\ UNCHANGED <<impl, lru, simple, history, others>>

NextObject ==
    \/ \E key \in Keys : Object_Get_LRUCache(key)
    \/ \E key \in Keys, value \in Values : Object_Put_LRUCache(key, value)
    \/ \E key \in Keys : Object_Get_LRUCacheSimple(key)
    \/ \E key \in Keys, value \in Values : Object_Put_LRUCacheSimple(key, value)
    \/ \E key \in Keys : Object_Get_LFUCache(key)
    \/ \E key \in Keys, value \in Values : Object_Put_LFUCache(key, value)

SpecObject == Init /\ [][NextObject]_vars

(***************************************************************************)
(* LFUCache with its accesses counted: count as in Spec, and forgotten,    *)
(* the keys that were evicted after a get had hit them or a put had        *)
(* updated them.                                                           *)
(***************************************************************************)
\* 1 for the call that inserted a key, 1 more for every later get that hit
\* it and every later put that updated it; nothing for a key no longer stored
Counted(cnt, op, key, pre, post) ==
    [k \in post |->
        IF k # key THEN cnt[k]
        ELSE IF k \notin pre THEN 1
        ELSE cnt[k] + 1]

\* the keys evicted so far at a frequency above 1
Forgotten(old, c, evicted) ==
    IF evicted # NoKey /\ c.key_to_freq[evicted] > 1 THEN old \cup {evicted} ELSE old

InitCounted ==
    /\ impl = "LFUCache"
    /\ \E capacity \in Capacities :
          /\ lru = LRUCache_init(capacity)
          /\ simple = LRUCacheSimple_init(capacity)
          /\ lfu = LFUCache_init(capacity)
    /\ last = Call("new", 0, 0, Result(0, 0, FALSE, NoKey))
    /\ order = <<>>
    /\ count = EmptyDict
    /\ putOnly = TRUE
    /\ lastPut = EmptyDict
    /\ putSeq = <<>>
    /\ forgotten = {}
    /\ both = <<>> /\ threads = <<>> /\ heap = <<>> /\ leaky = <<>>
    /\ ScenarioIdle /\ LimitersIdle /\ UnionFindIdle /\ AnalysisIdle

Counted_get(key) ==
    /\ impl = "LFUCache"
    /\ LFU_within_bound(key)
    /\ \E r \in {LFUCache_get(lfu, key)} :
           /\ lfu' = r.c
           /\ last' = Call("get", key, 0, r)
           /\ count' = Counted(count, "get", key, LFUCache_keys(lfu), LFUCache_keys(r.c))
    /\ UNCHANGED <<impl, lru, simple, order, putOnly, lastPut, putSeq, forgotten, both, threads, heap, leaky,
                   scenario, limiters, unionfind, analysis>>

Counted_put(key, value) ==
    /\ impl = "LFUCache"
    /\ LFU_within_bound(key)
    /\ \E r \in {LFUCache_put(lfu, key, value)} :
           /\ lfu' = r.c
           /\ last' = Call("put", key, value, r)
           /\ count' = Counted(count, "put", key, LFUCache_keys(lfu), LFUCache_keys(r.c))
           /\ forgotten' = Forgotten(forgotten, lfu, r.evicted)
    /\ UNCHANGED <<impl, lru, simple, order, putOnly, lastPut, putSeq, both, threads, heap, leaky,
                   scenario, limiters, unionfind, analysis>>

NextCounted ==
    \/ \E key \in Keys : Counted_get(key)
    \/ \E key \in Keys, value \in Values : Counted_put(key, value)

SpecCounted == InitCounted /\ [][NextCounted]_vars

(***************************************************************************)
(* An LRUCache and an LRUCacheSimple of the same capacity, fed the same    *)
(* calls.                                                                  *)
(***************************************************************************)
\* what a call returned to its caller
Returns(r) == [ret |-> r.ret, raised |-> r.raised, evicted |-> r.evicted]

InitBoth ==
    /\ impl = "LRUCache"
    /\ \E capacity \in Capacities :
          /\ lru = LRUCache_init(capacity)
          /\ simple = LRUCacheSimple_init(capacity)
          /\ lfu = LFUCache_init(capacity)
    /\ last = Call("new", 0, 0, Result(0, 0, FALSE, NoKey))
    /\ order = <<>>
    /\ count = EmptyDict
    /\ putOnly = TRUE
    /\ lastPut = EmptyDict
    /\ putSeq = <<>>
    /\ forgotten = <<>> /\ threads = <<>> /\ heap = <<>> /\ leaky = <<>>
    /\ both = [op |-> "new", key |-> 0, value |-> 0,
               lru |-> Returns(Result(0, 0, FALSE, NoKey)),
               simple |-> Returns(Result(0, 0, FALSE, NoKey))]
    /\ ScenarioIdle /\ LimitersIdle /\ UnionFindIdle /\ AnalysisIdle

Both_get(key) ==
    /\ \E r \in {LRUCache_get(lru, key)}, s \in {LRUCacheSimple_get(simple, key)} :
           /\ lru' = r.c
           /\ simple' = s.c
           /\ both' = [op |-> "get", key |-> key, value |-> 0,
                       lru |-> Returns(r), simple |-> Returns(s)]
    /\ UNCHANGED <<impl, lfu, history, forgotten, threads, heap, leaky, scenario, limiters, unionfind, analysis>>

Both_put(key, value) ==
    /\ \E r \in {LRUCache_put(lru, key, value)}, s \in {LRUCacheSimple_put(simple, key, value)} :
           /\ lru' = r.c
           /\ simple' = s.c
           /\ both' = [op |-> "put", key |-> key, value |-> value,
                       lru |-> Returns(r), simple |-> Returns(s)]
    /\ UNCHANGED <<impl, lfu, history, forgotten, threads, heap, leaky, scenario, limiters, unionfind, analysis>>

NextBoth ==
    \/ \E key \in Keys : Both_get(key)
    \/ \E key \in Keys, value \in Values : Both_put(key, value)

SpecBoth == InitBoth /\ [][NextBoth]_vars

(***************************************************************************)
(* The scripted scenario of test_lru_cache on an LFUCache(2):              *)
(*   put(1,1) put(2,2) get(1) put(3,3) get(2) get(3) put(4,4) get(1)       *)
(*   get(3) get(4)                                                         *)
(* run with any four distinct keys of 1..MaxScriptKey in the places of 1,  *)
(* 2, 3, 4 (script[i] stands for the key i of the test) and, as in the     *)
(* test, each key as its own value.                                        *)
(***************************************************************************)
ScriptCalls ==
    << [op |-> "put", arg |-> 1], [op |-> "put", arg |-> 2], [op |-> "get", arg |-> 1],
       [op |-> "put", arg |-> 3], [op |-> "get", arg |-> 2], [op |-> "get", arg |-> 3],
       [op |-> "put", arg |-> 4], [op |-> "get", arg |-> 1], [op |-> "get", arg |-> 3],
       [op |-> "get", arg |-> 4] >>

ScriptKeys == 1..MaxScriptKey

\* the outcome of a call as the test sees it
Outcome(r) == [ret |-> r.ret, raised |-> r.raised]

InitScript ==
    /\ impl = "LFUCache"
    /\ lru = LRUCache_init(ScriptCapacity)
    /\ simple = LRUCacheSimple_init(ScriptCapacity)
    /\ lfu = LFUCache_init(ScriptCapacity)
    /\ last = Call("new", 0, 0, Result(0, 0, FALSE, NoKey))
    /\ order = <<>>
    /\ count = EmptyDict
    /\ putOnly = TRUE
    /\ lastPut = EmptyDict
    /\ putSeq = <<>>
    /\ script \in {s \in [1..4 -> ScriptKeys] : \A i, j \in 1..4 : i # j => s[i] # s[j]}
    /\ pc = 0
    /\ rets = <<>>
    /\ LimitersIdle /\ UnionFindIdle /\ AnalysisIdle /\ ExtrasIdle

\* the next call of the scenario is a put: lfu.put(k, k)
Script_put ==
    /\ pc < Len(ScriptCalls)
    /\ ScriptCalls[pc + 1].op = "put"
    /\ \E r \in {LFUCache_put(lfu, script[ScriptCalls[pc + 1].arg], script[ScriptCalls[pc + 1].arg])} :
          /\ lfu' = r.c
          /\ rets' = Append(rets, Outcome(r))
    /\ pc' = pc + 1
    /\ UNCHANGED <<impl, lru, simple, history, script, limiters, unionfind, analysis, extras>>

\* the next call of the scenario is a get: lfu.get(k)
Script_get ==
    /\ pc < Len(ScriptCalls)
    /\ ScriptCalls[pc + 1].op = "get"
    /\ \E r \in {LFUCache_get(lfu, script[ScriptCalls[pc + 1].arg])} :
          /\ lfu' = r.c
          /\ rets' = Append(rets, Outcome(r))
    /\ pc' = pc + 1
    /\ UNCHANGED <<impl, lru, simple, history, script, limiters, unionfind, analysis, extras>>

NextScript == Script_put \/ Script_get

SpecScript == InitScript /\ [][NextScript]_vars

(***************************************************************************)
(* Part 2: 02_rate_limiter.py.  time.time() is the variable now, counted   *)
(* in whole ticks; it never goes back.  Every call of is_allowed is made   *)
(* by one caller at a time and reads the clock once (line 41, 94).         *)
(***************************************************************************)
Users == 0..MaxUser
Times == 0..MaxTime

\* the answer of a call: the object after the call and the returned bool
Answer(c, ret) == [c |-> c, ret |-> ret]

\* SlidingWindowRateLimiter.__init__
SlidingWindowRateLimiter_init(max_requests, window_seconds) ==
    [max_requests |-> max_requests,
     window_seconds |-> window_seconds,
     user_requests |-> EmptyDict]

Sliding_expired_le(t, window_start) == t <= window_start

\* line 48: requests[0] < window_start
Sliding_expired(t, window_start) == t < window_start

\* lines 48-49: while requests and requests[0] < window_start: requests.popleft()
RECURSIVE Sliding_popleft(_, _)
Sliding_popleft(requests, window_start) ==
    IF requests # <<>> /\ Sliding_expired(Head(requests), window_start)
    THEN Sliding_popleft(Tail(requests), window_start)
    ELSE requests

\* variant: a denied request is recorded too
SlidingWindowRateLimiter_is_allowed_recording(c, user_id, current_time) ==
    LET window_start == current_time - c.window_seconds
        before == IF user_id \in DOMAIN c.user_requests THEN c.user_requests[user_id] ELSE <<>>
        requests == Sliding_popleft(before, window_start)
    IN  Answer([c EXCEPT !.user_requests = DictSet(@, user_id, Append(requests, current_time))],
               Len(requests) < c.max_requests)

\* variant: one deque for all users
SlidingWindowRateLimiter_is_allowed_shared(c, user_id, current_time) ==
    LET window_start == current_time - c.window_seconds
        before == IF 0 \in DOMAIN c.user_requests THEN c.user_requests[0] ELSE <<>>
        requests == Sliding_popleft(before, window_start)
    IN  IF Len(requests) < c.max_requests
        THEN Answer([c EXCEPT !.user_requests = DictSet(@, 0, Append(requests, current_time))], TRUE)
        ELSE Answer([c EXCEPT !.user_requests = DictSet(@, 0, requests)], FALSE)

\* SlidingWindowRateLimiter.is_allowed with time.time() = current_time;
\* user_requests is a defaultdict, so the user's deque exists afterwards
SlidingWindowRateLimiter_is_allowed(c, user_id, current_time) ==
    LET window_start == current_time - c.window_seconds
        before == IF user_id \in DOMAIN c.user_requests THEN c.user_requests[user_id] ELSE <<>>
        requests == Sliding_popleft(before, window_start)
    IN  IF Len(requests) < c.max_requests
        THEN Answer([c EXCEPT !.user_requests = DictSet(@, user_id, Append(requests, current_time))], TRUE)
        ELSE Answer([c EXCEPT !.user_requests = DictSet(@, user_id, requests)], FALSE)

\* what a call was and what it answered
Reply(op, user_id, ret) == [op |-> op, user |-> user_id, ret |-> ret, time |-> now]

\* the log with one more call of user_id, made now
Logged(user_id, ret) == [log EXCEPT ![user_id] = Append(@, [time |-> now, ret |-> ret])]

\* limiter = SlidingWindowRateLimiter(max_requests, window_seconds)
InitSliding ==
    /\ CachesIdle /\ ScenarioIdle /\ UnionFindIdle /\ AnalysisIdle /\ ExtrasIdle
    /\ now = 0 /\ calls = 0
    /\ \E max_requests \in 0..MaxRequests, window_seconds \in 0..MaxWindow :
          sliding = SlidingWindowRateLimiter_init(max_requests, window_seconds)
    /\ bucket = <<>> /\ sliding2 = <<>> /\ bucket2 = <<>>
    /\ reply = Reply("new", 0, FALSE) /\ reply2 = <<>> /\ watched = 0
    /\ log = [u \in Users |-> <<>>]

\* time passes
Tick ==
    /\ now < MaxTime
    /\ now' = now + 1
    /\ UNCHANGED <<caches, extras, scenario, unionfind, analysis, calls, sliding, bucket, sliding2, bucket2,
                   reply, reply2, watched, log>>

\* limiter.is_allowed(user_id)
Sliding_is_allowed(user_id) ==
    /\ calls < MaxCalls
    /\ calls' = calls + 1
    /\ \E r \in {SlidingWindowRateLimiter_is_allowed(sliding, user_id, now)} :
          /\ sliding' = r.c
          /\ reply' = Reply("is_allowed", user_id, r.ret)
          /\ log' = Logged(user_id, r.ret)
    /\ UNCHANGED <<caches, extras, scenario, unionfind, analysis, now, bucket, sliding2, bucket2, reply2, watched>>

NextSliding ==
    \/ Tick
    \/ \E user_id \in Users : Sliding_is_allowed(user_id)

SpecSliding == InitSliding /\ [][NextSliding]_vars

\* variant: every recorded request counts, expired or not
SlidingWindowRateLimiter_get_remaining_all(c, user_id, current_time) ==
    LET requests == IF user_id \in DOMAIN c.user_requests THEN c.user_requests[user_id] ELSE <<>>
        valid_count == Len(requests)
    IN  Answer([c EXCEPT !.user_requests = DictSet(@, user_id, requests)],
               IF c.max_requests - valid_count > 0 THEN c.max_requests - valid_count ELSE 0)

\* SlidingWindowRateLimiter.get_remaining with time.time() = current_time:
\* the requests are counted, none is popped; user_requests is a defaultdict,
\* so the user's deque exists afterwards
SlidingWindowRateLimiter_get_remaining(c, user_id, current_time) ==
    LET window_start == current_time - c.window_seconds
        requests == IF user_id \in DOMAIN c.user_requests THEN c.user_requests[user_id] ELSE <<>>
        valid_count == Cardinality({i \in 1..Len(requests) : requests[i] >= window_start})
    IN  Answer([c EXCEPT !.user_requests = DictSet(@, user_id, requests)],
               IF c.max_requests - valid_count > 0 THEN c.max_requests - valid_count ELSE 0)

\* limiter = SlidingWindowRateLimiter(max_requests, window_seconds), with
\* any int for max_requests: the constructor checks nothing
InitRemaining ==
    /\ CachesIdle /\ ScenarioIdle /\ UnionFindIdle /\ AnalysisIdle /\ ExtrasIdle
    /\ now = 0 /\ calls = 0
    /\ \E max_requests \in (-1)..MaxRequests, window_seconds \in 0..MaxWindow :
          sliding = SlidingWindowRateLimiter_init(max_requests, window_seconds)
    /\ bucket = <<>> /\ sliding2 = <<>> /\ bucket2 = <<>>
    /\ reply = Reply("new", 0, FALSE) /\ reply2 = <<>> /\ watched = 0
    /\ log = [u \in Users |-> <<>>]

\* limiter.get_remaining(user_id)
Sliding_get_remaining(user_id) ==
    /\ calls < MaxCalls
    /\ calls' = calls + 1
    /\ \E r \in {SlidingWindowRateLimiter_get_remaining(sliding, user_id, now)} :
          /\ sliding' = r.c
          /\ reply' = Reply("get_remaining", user_id, r.ret)
    /\ UNCHANGED <<caches, extras, scenario, unionfind, analysis, now, bucket, sliding2, bucket2, reply2, watched, log>>

NextRemaining ==
    \/ Tick
    \/ \E user_id \in Users : Sliding_is_allowed(user_id)
    \/ \E user_id \in Users : Sliding_get_remaining(user_id)

SpecRemaining == InitRemaining /\ [][NextRemaining]_vars

(***************************************************************************)
(* TokenBucketRateLimiter.  The token counts are fractions; the model      *)
(* keeps them exactly, as whole numbers of 1/RateDen token:                *)
(* refill_rate = rate / RateDen tokens per tick, buckets[u] = the user's   *)
(* tokens times RateDen.                                                   *)
(***************************************************************************)
Rates == 0..MaxRate

Min(a, b) == IF a <= b THEN a ELSE b

\* TokenBucketRateLimiter.__init__
TokenBucketRateLimiter_init(bucket_capacity, refill_rate) ==
    [bucket_capacity |-> bucket_capacity,
     refill_rate |-> refill_rate,
     buckets |-> EmptyDict,
     last_refill |-> EmptyDict]

\* one token, and the full bucket, in the unit of buckets
OneToken == RateDen
FullBucket(c) == c.bucket_capacity * RateDen

Bucket_refilled_uncapped(c, tokens, elapsed) == tokens + elapsed * c.refill_rate

\* lines 104-107: min(bucket_capacity, buckets[user_id] + elapsed * refill_rate)
Bucket_refilled(c, tokens, elapsed) == Min(FullBucket(c), tokens + elapsed * c.refill_rate)

Bucket_has_token_any(tokens) == tokens > 0

\* line 111: buckets[user_id] >= 1
Bucket_has_token(tokens) == tokens >= OneToken

\* TokenBucketRateLimiter.is_allowed with time.time() = current_time
TokenBucketRateLimiter_is_allowed(c, user_id, current_time) ==
    LET c1 == IF user_id \notin DOMAIN c.buckets
              THEN [c EXCEPT !.buckets = DictSet(@, user_id, FullBucket(c)),
                             !.last_refill = DictSet(@, user_id, current_time)]
              ELSE c
        elapsed == current_time - c1.last_refill[user_id]
        c2 == [c1 EXCEPT !.buckets[user_id] = Bucket_refilled(c1, @, elapsed),
                         !.last_refill[user_id] = current_time]
    IN  IF Bucket_has_token(c2.buckets[user_id])
        THEN Answer([c2 EXCEPT !.buckets[user_id] = @ - OneToken], TRUE)
        ELSE Answer(c2, FALSE)

\* limiter = TokenBucketRateLimiter(bucket_capacity, refill_rate)
InitBucket ==
    /\ CachesIdle /\ ScenarioIdle /\ UnionFindIdle /\ AnalysisIdle /\ ExtrasIdle
    /\ now = 0 /\ calls = 0
    /\ \E bucket_capacity \in 0..MaxBucket, refill_rate \in Rates :
          bucket = TokenBucketRateLimiter_init(bucket_capacity, refill_rate)
    /\ sliding = <<>> /\ sliding2 = <<>> /\ bucket2 = <<>>
    /\ reply = Reply("new", 0, FALSE) /\ reply2 = <<>> /\ watched = 0
    /\ log = [u \in Users |-> <<>>]

\* limiter.is_allowed(user_id)
Bucket_is_allowed(user_id) ==
    /\ calls < MaxCalls
    /\ calls' = calls + 1
    /\ \E r \in {TokenBucketRateLimiter_is_allowed(bucket, user_id, now)} :
          /\ bucket' = r.c
          /\ reply' = Reply("is_allowed", user_id, r.ret)
          /\ log' = Logged(user_id, r.ret)
    /\ UNCHANGED <<caches, extras, scenario, unionfind, analysis, now, sliding, sliding2, bucket2, reply2, watched>>

NextBucket ==
    \/ Tick
    \/ \E user_id \in Users : Bucket_is_allowed(user_id)

SpecBucket == InitBucket /\ [][NextBucket]_vars

(***************************************************************************)
(* Two runs of one limiter class with the same parameters and one clock.   *)
(* Both runs make the same calls for the user watched, at the same times.  *)
(* In the first run the other users call too, at any time; in the second   *)
(* run the watched user is alone.  Two runs with different calls of the    *)
(* other users answer the watched user alike if each of them answers as    *)
(* the second run does.                                                    *)
(***************************************************************************)
InitTwoRuns ==
    /\ CachesIdle /\ ScenarioIdle /\ UnionFindIdle /\ AnalysisIdle /\ ExtrasIdle
    /\ now = 0 /\ calls = 0
    /\ \/ /\ \E max_requests \in 0..MaxRequests, window_seconds \in 0..MaxWindow :
                sliding = SlidingWindowRateLimiter_init(max_requests, window_seconds)
          /\ sliding2 = sliding
          /\ bucket = <<>> /\ bucket2 = <<>>
       \/ /\ \E bucket_capacity \in 0..MaxBucket, refill_rate \in Rates :
                bucket = TokenBucketRateLimiter_init(bucket_capacity, refill_rate)
          /\ bucket2 = bucket
          /\ sliding = <<>> /\ sliding2 = <<>>
    /\ watched \in Users
    /\ reply = Reply("new", watched, FALSE) /\ reply2 = reply
    /\ log = [u \in Users |-> <<>>]

\* both runs: limiter.is_allowed(watched)
Sliding_both ==
    /\ sliding # <<>>
    /\ calls < MaxCalls
    /\ calls' = calls + 1
    /\ \E r \in {SlidingWindowRateLimiter_is_allowed(sliding, watched, now)},
          r2 \in {SlidingWindowRateLimiter_is_allowed(sliding2, watched, now)} :
          /\ sliding' = r.c /\ sliding2' = r2.c
          /\ reply' = Reply("is_allowed", watched, r.ret)
          /\ reply2' = Reply("is_allowed", watched, r2.ret)
    /\ UNCHANGED <<caches, extras, scenario, unionfind, analysis, now, bucket, bucket2, watched, log>>

\* first run only: limiter.is_allowed(user_id) for another user
Sliding_other(user_id) ==
    /\ sliding # <<>>
    /\ user_id # watched
    /\ calls < MaxCalls
    /\ calls' = calls + 1
    /\ sliding' = SlidingWindowRateLimiter_is_allowed(sliding, user_id, now).c
    /\ UNCHANGED <<caches, extras, scenario, unionfind, analysis, now, sliding2, bucket, bucket2, reply, reply2, watched, log>>

\* both runs: limiter.is_allowed(watched)
Bucket_both ==
    /\ bucket # <<>>
    /\ calls < MaxCalls
    /\ calls' = calls + 1
    /\ \E r \in {TokenBucketRateLimiter_is_allowed(bucket, watched, now)},
          r2 \in {TokenBucketRateLimiter_is_allowed(bucket2, watched, now)} :
          /\ bucket' = r.c /\ bucket2' = r2.c
          /\ reply' = Reply("is_allowed", watched, r.ret)
          /\ reply2' = Reply("is_allowed", watched, r2.ret)
    /\ UNCHANGED <<caches, extras, scenario, unionfind, analysis, now, sliding, sliding2, watched, log>>

\* first run only: limiter.is_allowed(user_id) for another user
Bucket_other(user_id) ==
    /\ bucket # <<>>
    /\ user_id # watched
    /\ calls < MaxCalls
    /\ calls' = calls + 1
    /\ bucket' = TokenBucketRateLimiter_is_allowed(bucket, user_id, now).c
    /\ UNCHANGED <<caches, extras, scenario, unionfind, analysis, now, sliding, sliding2, bucket2, reply, reply2, watched, log>>

NextTwoRuns ==
    \/ Tick
    \/ Sliding_both
    \/ \E user_id \in Users : Sliding_other(user_id)
    \/ Bucket_both
    \/ \E user_id \in Users : Bucket_other(user_id)

SpecTwoRuns == InitTwoRuns /\ [][NextTwoRuns]_vars

(***************************************************************************)
(* LeakyBucketRateLimiter.  The levels are fractions, kept exactly as      *)
(* whole numbers of 1/RateDen request: leak_rate = rate / RateDen requests *)
(* per tick, buckets[u] = the user's level times RateDen.                  *)
(***************************************************************************)
\* LeakyBucketRateLimiter.__init__
LeakyBucketRateLimiter_init(bucket_capacity, leak_rate) ==
    [bucket_capacity |-> bucket_capacity,
     leak_rate |-> leak_rate,
     buckets |-> EmptyDict,
     last_leak |-> EmptyDict]

\* buckets is a defaultdict(float): a user without a level reads as 0.0
Leaky_level(c, user_id) == IF user_id \in DOMAIN c.buckets THEN c.buckets[user_id] ELSE 0

\* lines 148-150: max(0, buckets[user_id] - elapsed * leak_rate)
Leaky_leaked(c, level, elapsed) ==
    IF level - elapsed * c.leak_rate > 0 THEN level - elapsed * c.leak_rate ELSE 0

\* LeakyBucketRateLimiter.is_allowed with time.time() = current_time
LeakyBucketRateLimiter_is_allowed(c, user_id, current_time) ==
    LET c1 == IF user_id \notin DOMAIN c.last_leak
              THEN [c EXCEPT !.last_leak = DictSet(@, user_id, current_time)]
              ELSE c
        elapsed == current_time - c1.last_leak[user_id]
        c2 == [c1 EXCEPT !.buckets = DictSet(@, user_id, Leaky_leaked(c1, Leaky_level(c1, user_id), elapsed)),
                         !.last_leak[user_id] = current_time]
    IN  IF c2.buckets[user_id] < FullBucket(c2)
        THEN Answer([c2 EXCEPT !.buckets[user_id] = @ + OneToken], TRUE)
        ELSE Answer(c2, FALSE)

\* limiter = LeakyBucketRateLimiter(bucket_capacity, leak_rate)
InitLeaky ==
    /\ CachesIdle /\ ScenarioIdle /\ UnionFindIdle /\ AnalysisIdle
    /\ forgotten = <<>> /\ both = <<>> /\ threads = <<>> /\ heap = <<>>
    /\ now = 0 /\ calls = 0
    /\ \E bucket_capacity \in 0..MaxBucket, leak_rate \in Rates :
          leaky = LeakyBucketRateLimiter_init(bucket_capacity, leak_rate)
    /\ sliding = <<>> /\ bucket = <<>> /\ sliding2 = <<>> /\ bucket2 = <<>>
    /\ reply = Reply("new", 0, FALSE) /\ reply2 = <<>> /\ watched = 0
    /\ log = [u \in Users |-> <<>>]

\* limiter.is_allowed(user_id)
Leaky_is_allowed(user_id) ==
    /\ calls < MaxCalls
    /\ calls' = calls + 1
    /\ \E r \in {LeakyBucketRateLimiter_is_allowed(leaky, user_id, now)} :
          /\ leaky' = r.c
          /\ reply' = Reply("is_allowed", user_id, r.ret)
          /\ log' = Logged(user_id, r.ret)
    /\ UNCHANGED <<caches, forgotten, both, threads, heap, scenario, unionfind, analysis, now,
                   sliding, bucket, sliding2, bucket2, reply2, watched>>

NextLeaky ==
    \/ Tick
    \/ \E user_id \in Users : Leaky_is_allowed(user_id)

SpecLeaky == InitLeaky /\ [][NextLeaky]_vars

(***************************************************************************)
(* SlidingWindowRateLimiter.is_allowed called by several threads for one   *)
(* user.  A thread can be overtaken between any two lines: after it read   *)
(* the clock (line 41), while it looks up its lock (line 44), while it     *)
(* waits for the lock, and inside the with block by a thread that holds    *)
(* another lock.  self.locks and self.user_requests are defaultdicts:      *)
(* looking up a missing key calls __missing__, which builds the object and *)
(* stores it.  Python does not say that no other thread runs between the   *)
(* failed lookup and the store; heap.atomic tells whether this build runs  *)
(* the two in one step.                                                    *)
(***************************************************************************)
Threads == 0..MaxThread

\* the user all threads call for
TheUser == 0

\* a thread outside is_allowed
Idle == [pc |-> "idle", current_time |-> 0, lock |-> None, requests |-> None]

InitThreads ==
    /\ CachesIdle /\ ScenarioIdle /\ UnionFindIdle /\ AnalysisIdle
    /\ forgotten = <<>> /\ both = <<>> /\ leaky = <<>>
    /\ now = 0 /\ calls = 0
    /\ \E max_requests \in 0..MaxRequests, window_seconds \in 0..MaxWindow :
          sliding = [max_requests |-> max_requests,
                     window_seconds |-> window_seconds,
                     user_requests |-> EmptyDict,
                     locks |-> EmptyDict]
    /\ \E atomic \in BOOLEAN :
          heap = [atomic |-> atomic, deques |-> <<>>, locks |-> <<>>]
    /\ threads = [th \in Threads |-> Idle]
    /\ bucket = <<>> /\ sliding2 = <<>> /\ bucket2 = <<>>
    /\ reply = <<>> /\ reply2 = <<>> /\ watched = 0
    /\ log = [u \in Users |-> <<>>]

\* what the steps of a thread leave alone besides what they name
ThreadFrame ==
    <<caches, forgotten, both, leaky, scenario, unionfind, analysis, now, bucket,
      sliding2, bucket2, reply, reply2, watched>>

\* lines 41-42: the call begins and reads the clock
Thread_time(th) ==
    /\ threads[th].pc = "idle"
    /\ calls < MaxCalls
    /\ calls' = calls + 1
    /\ threads' = [threads EXCEPT ![th] = [Idle EXCEPT !.pc = "locks", !.current_time = now]]
    /\ UNCHANGED <<ThreadFrame, sliding, heap, log>>

\* line 44, self.locks[user_id]: the lock is found, or it is missing and
\* built and stored at once, or it is missing and the store is yet to come
Thread_locks(th) ==
    /\ threads[th].pc = "locks"
    /\ IF TheUser \in DOMAIN sliding.locks
       THEN /\ threads' = [threads EXCEPT ![th].pc = "acquire",
                                          ![th].lock = sliding.locks[TheUser]]
            /\ UNCHANGED <<sliding, heap>>
       ELSE IF heap.atomic
       THEN /\ heap' = [heap EXCEPT !.locks = Append(@, FALSE)]
            /\ sliding' = [sliding EXCEPT !.locks = DictSet(@, TheUser, Len(heap.locks) + 1)]
            /\ threads' = [threads EXCEPT ![th].pc = "acquire",
                                          ![th].lock = Len(heap.locks) + 1]
       ELSE /\ threads' = [threads EXCEPT ![th].pc = "new_lock"]
            /\ UNCHANGED <<sliding, heap>>
    /\ UNCHANGED <<ThreadFrame, calls, log>>

\* defaultdict.__missing__ of self.locks: a new Lock is stored under the key,
\* over whatever is there by now, and returned
Thread_new_lock(th) ==
    /\ threads[th].pc = "new_lock"
    /\ heap' = [heap EXCEPT !.locks = Append(@, FALSE)]
    /\ sliding' = [sliding EXCEPT !.locks = DictSet(@, TheUser, Len(heap.locks) + 1)]
    /\ threads' = [threads EXCEPT ![th].pc = "acquire", ![th].lock = Len(heap.locks) + 1]
    /\ UNCHANGED <<ThreadFrame, calls, log>>

\* line 44, with: the thread takes its lock once nobody holds it
Thread_acquire(th) ==
    /\ threads[th].pc = "acquire"
    /\ ~heap.locks[threads[th].lock]
    /\ heap' = [heap EXCEPT !.locks[threads[th].lock] = TRUE]
    /\ threads' = [threads EXCEPT ![th].pc = "requests"]
    /\ UNCHANGED <<ThreadFrame, calls, sliding, log>>

\* line 45, requests = self.user_requests[user_id]
Thread_requests(th) ==
    /\ threads[th].pc = "requests"
    /\ IF TheUser \in DOMAIN sliding.user_requests
       THEN /\ threads' = [threads EXCEPT ![th].pc = "while",
                                          ![th].requests = sliding.user_requests[TheUser]]
            /\ UNCHANGED <<sliding, heap>>
       ELSE IF heap.atomic
       THEN /\ heap' = [heap EXCEPT !.deques = Append(@, <<>>)]
            /\ sliding' = [sliding EXCEPT !.user_requests = DictSet(@, TheUser, Len(heap.deques) + 1)]
            /\ threads' = [threads EXCEPT ![th].pc = "while",
                                          ![th].requests = Len(heap.deques) + 1]
       ELSE /\ threads' = [threads EXCEPT ![th].pc = "new_deque"]
            /\ UNCHANGED <<sliding, heap>>
    /\ UNCHANGED <<ThreadFrame, calls, log>>

\* defaultdict.__missing__ of self.user_requests
Thread_new_deque(th) ==
    /\ threads[th].pc = "new_deque"
    /\ heap' = [heap EXCEPT !.deques = Append(@, <<>>)]
    /\ sliding' = [sliding EXCEPT !.user_requests = DictSet(@, TheUser, Len(heap.deques) + 1)]
    /\ threads' = [threads EXCEPT ![th].pc = "while", ![th].requests = Len(heap.deques) + 1]
    /\ UNCHANGED <<ThreadFrame, calls, log>>

\* lines 48-49: one turn of the while loop, or its end
Thread_while(th) ==
    /\ threads[th].pc = "while"
    /\ LET requests == heap.deques[threads[th].requests]
           window_start == threads[th].current_time - sliding.window_seconds
       IN  IF requests # <<>> /\ Sliding_expired(Head(requests), window_start)
           THEN /\ heap' = [heap EXCEPT !.deques[threads[th].requests] = Tail(requests)]
                /\ UNCHANGED threads
           ELSE /\ threads' = [threads EXCEPT ![th].pc = "if"]
                /\ UNCHANGED heap
    /\ UNCHANGED <<ThreadFrame, calls, sliding, log>>

\* line 52: if len(requests) < self.max_requests
Thread_if(th) ==
    /\ threads[th].pc = "if"
    /\ threads' = [threads EXCEPT ![th].pc =
                      IF Len(heap.deques[threads[th].requests]) < sliding.max_requests
                      THEN "append" ELSE "return False"]
    /\ UNCHANGED <<ThreadFrame, calls, sliding, heap, log>>

\* line 53: requests.append(current_time)
Thread_append(th) ==
    /\ threads[th].pc = "append"
    /\ heap' = [heap EXCEPT !.deques[threads[th].requests] = Append(@, threads[th].current_time)]
    /\ threads' = [threads EXCEPT ![th].pc = "return True"]
    /\ UNCHANGED <<ThreadFrame, calls, sliding, log>>

\* lines 54 and 56: the lock is released and the call returns; the log keeps
\* the time the call read, its answer, and the time it returned at
Thread_return(th) ==
    /\ threads[th].pc \in {"return True", "return False"}
    /\ heap' = [heap EXCEPT !.locks[threads[th].lock] = FALSE]
    /\ log' = [log EXCEPT ![TheUser] =
                  Append(@, [time |-> threads[th].current_time,
                             ret |-> threads[th].pc = "return True",
                             done |-> now])]
    /\ threads' = [threads EXCEPT ![th] = Idle]
    /\ UNCHANGED <<ThreadFrame, calls, sliding>>

NextThreads ==
    \/ Tick
    \/ \E th \in Threads :
          \/ Thread_time(th)
          \/ Thread_locks(th)
          \/ Thread_new_lock(th)
          \/ Thread_acquire(th)
          \/ Thread_requests(th)
          \/ Thread_new_deque(th)
          \/ Thread_while(th)
          \/ Thread_if(th)
          \/ Thread_append(th)
          \/ Thread_return(th)

SpecThreads == InitThreads /\ [][NextThreads]_vars

\* ---------------------------------------------------------------------------
\* Part 3: UnionFind (03_account_merging.py)
\* ---------------------------------------------------------------------------

Elems == 0..MaxElem

\* UnionFind.__init__: two empty dicts
UnionFind_init == [parent |-> EmptyDict, rank |-> EmptyDict]

\* the result of a call on the object: the object afterwards and the value
\* returned
Found(u, root) == [uf |-> u, root |-> root]

\* lines 36-38 of find: an element not seen before becomes its own parent
\* with rank 0
UF_seen(u, x) ==
    IF x \in DOMAIN u.parent
    THEN u
    ELSE [parent |-> [e \in DOMAIN u.parent \cup {x} |->
                          IF e = x THEN x ELSE u.parent[e]],
          rank |-> [e \in DOMAIN u.rank \cup {x} |->
                          IF e = x THEN 0 ELSE u.rank[e]]]

RECURSIVE UnionFind_find(_, _)
\* UnionFind.find: the root of x, with every element on the way re-pointed
\* at the root (path compression)
UnionFind_find(u, x) ==
    LET u1 == UF_seen(u, x)
    IN  IF u1.parent[x] # x
        THEN LET r == UnionFind_find(u1, u1.parent[x])
             IN  Found([r.uf EXCEPT !.parent[x] = r.root], r.root)
        ELSE Found(u1, x)

\* a union that links the two arguments themselves instead of their roots
UnionFind_union_args(u, x, y) ==
    LET fx == UnionFind_find(u, x)
        fy == UnionFind_find(fx.uf, y)
        u2 == fy.uf
    IN  IF fx.root = fy.root
        THEN u2
        ELSE [u2 EXCEPT !.parent[x] = y]

\* UnionFind.union: union by rank of the two roots
UnionFind_union(u, x, y) ==
    LET fx == UnionFind_find(u, x)
        fy == UnionFind_find(fx.uf, y)
        u2 == fy.uf
        root_x == fx.root
        root_y == fy.root
    IN  IF root_x = root_y
        THEN u2
        ELSE IF u2.rank[root_x] < u2.rank[root_y]
        THEN [u2 EXCEPT !.parent[root_x] = root_y]
        ELSE IF u2.rank[root_x] > u2.rank[root_y]
        THEN [u2 EXCEPT !.parent[root_y] = root_x]
        ELSE [u2 EXCEPT !.parent[root_y] = root_x,
                        !.rank[root_x] = @ + 1]

\* the elements linked to x or to y once union(x, y) has been called
Linked_union(l, x, y) ==
    [e \in Elems |-> IF e \in l[x] \cup l[y] THEN l[x] \cup l[y] ELSE l[e]]

InitUnionFind ==
    /\ CachesIdle /\ ScenarioIdle /\ LimitersIdle /\ AnalysisIdle /\ ExtrasIdle
    /\ uf = UnionFind_init
    /\ ufcall = [op |-> "init", x |-> 0, y |-> 0, ret |-> None]
    /\ linked = [e \in Elems |-> {e}]

\* uf.find(x)
UF_find(x) ==
    /\ \E r \in {UnionFind_find(uf, x)} :
          /\ uf' = r.uf
          /\ ufcall' = [op |-> "find", x |-> x, y |-> x, ret |-> r.root]
    /\ UNCHANGED <<caches, extras, scenario, limiters, analysis, linked>>

\* uf.union(x, y)
UF_union(x, y) ==
    /\ uf' = UnionFind_union(uf, x, y)
    /\ ufcall' = [op |-> "union", x |-> x, y |-> y, ret |-> None]
    /\ linked' = Linked_union(linked, x, y)
    /\ UNCHANGED <<caches, extras, scenario, limiters, analysis>>

NextUnionFind ==
    \/ \E x \in Elems : UF_find(x)
    \/ \E x, y \in Elems : UF_union(x, y)

SpecUnionFind == InitUnionFind /\ [][NextUnionFind]_vars

\* ---------------------------------------------------------------------------
\* Part 4: transaction analysis (01_transaction_analysis.py)
\* ---------------------------------------------------------------------------

\* the thresholds written in the code
VelocityWindow == 60
VelocityLimit == 3
AmountLimit == 10000
CityWindow == 600
CityLimit == 2

AccountIds == 0..MaxAccount
Cities == 0..MaxCity
\* amounts in dollars: a refund, and a payment of which two pass AmountLimit
Amounts == {-5000, 6000}
\* timestamps on both sides of the two windows: 61 - 0 > 60, 661 - 61 <= 600,
\* 661 - 0 > 600
TimeStamps == {0, VelocityWindow + 1, CityWindow + VelocityWindow + 1}

\* class Transaction, without transaction_id, which neither function reads:
\* account 0 with every amount in every city, the other accounts paying 6000
\* in city 0
Transaction ==
    [account_id : {0}, amount : Amounts, timestamp : TimeStamps, city : Cities]
    \cup [account_id : AccountIds \ {0}, amount : {6000},
          timestamp : TimeStamps, city : {0}]

RECURSIVE ListsOf(_, _)
\* the lists of at most n elements of S
ListsOf(S, n) ==
    IF n = 0
    THEN {<<>>}
    ELSE LET shorter == ListsOf(S, n - 1)
         IN  shorter \cup {Append(l, t) : l \in {x \in shorter : Len(x) = n - 1}, t \in S}

\* account_transactions[account_id] after the grouping loop: the account's
\* transactions in the order of the list
GroupOf(txns, account_id) ==
    SelectSeq(txns, LAMBDA t : t.account_id = account_id)

\* the keys of account_transactions
AccountsOf(txns) == {txns[i].account_id : i \in 1..Len(txns)}

RECURSIVE SortedByTimestamp(_)
\* txns.sort(key=lambda x: x.timestamp): a stable sort, so transactions with
\* equal timestamps keep their order
SortedByTimestamp(txns) ==
    IF txns = <<>>
    THEN <<>>
    ELSE LET n == Len(txns)
             t == txns[n]
             front == SortedByTimestamp(SubSeq(txns, 1, n - 1))
             k == Cardinality({i \in 1..(n - 1) : front[i].timestamp <= t.timestamp})
         IN  SubSeq(front, 1, k) \o <<t>> \o SubSeq(front, k + 1, n - 1)

RECURSIVE WindowEnd(_, _, _, _)
\* the inner loops of is_suspicious: the last index j, from j on, before the
\* first transaction later than window seconds after txns[i]
WindowEnd(txns, i, j, window) ==
    IF j <= Len(txns) /\ txns[j].timestamp - txns[i].timestamp <= window
    THEN WindowEnd(txns, i, j + 1, window)
    ELSE j - 1

RECURSIVE SumAmount(_, _, _)
\* the sum of the amounts of txns[i..j]
SumAmount(txns, i, j) ==
    IF i > j THEN 0 ELSE txns[i].amount + SumAmount(txns, i + 1, j)

\* is_suspicious: some window starting at a transaction holds more than 3
\* transactions or more than 10000 dollars in 60 seconds, or more than 2
\* cities in 600 seconds
is_suspicious(txns) ==
    \/ \E i \in 1..Len(txns) :
          LET end == WindowEnd(txns, i, i, VelocityWindow)
              window_count == end - i + 1
              window_amount == SumAmount(txns, i, end)
          IN  window_count > VelocityLimit \/ window_amount > AmountLimit
    \/ \E i \in 1..Len(txns) :
          LET end == WindowEnd(txns, i, i, CityWindow)
              cities_in_window == {txns[j].city : j \in i..end}
          IN  Cardinality(cities_in_window) > CityLimit

\* find_suspicious_accounts
find_suspicious_accounts(txns) ==
    {a \in AccountsOf(txns) : is_suspicious(SortedByTimestamp(GroupOf(txns, a)))}

RECURSIVE Shrink(_, _, _, _, _)
\* the while loop of the first two-pointer pass: left and window_amount once
\* txns[left] is within the window of txns[right]
Shrink(txns, left, right, window_amount, window) ==
    IF txns[right].timestamp - txns[left].timestamp > window
    THEN Shrink(txns, left + 1, right, window_amount - txns[left].amount, window)
    ELSE [left |-> left, window_amount |-> window_amount]

RECURSIVE VelocityPass(_, _, _, _)
\* the first for loop of find_suspicious_accounts_optimized from right on:
\* TRUE when it adds the account
VelocityPass(txns, right, left, window_amount) ==
    IF right > Len(txns)
    THEN FALSE
    ELSE LET s == Shrink(txns, left, right, window_amount + txns[right].amount,
                         VelocityWindow)
             window_size == right - s.left + 1
         IN  \/ window_size > VelocityLimit
             \/ s.window_amount > AmountLimit
             \/ VelocityPass(txns, right + 1, s.left, s.window_amount)

\* cities[city] += 1 on a defaultdict(int)
CityAdded(cities, city) ==
    [c \in DOMAIN cities \cup {city} |->
        IF c = city
        THEN (IF c \in DOMAIN cities THEN cities[c] ELSE 0) + 1
        ELSE cities[c]]

\* cities[city] -= 1, and the entry deleted when it reaches 0
CityDropped(cities, city) ==
    IF cities[city] = 1
    THEN [c \in DOMAIN cities \ {city} |-> cities[c]]
    ELSE [cities EXCEPT ![city] = @ - 1]

RECURSIVE ShrinkCities(_, _, _, _)
\* the while loop of the second two-pointer pass
ShrinkCities(txns, left, right, cities) ==
    IF txns[right].timestamp - txns[left].timestamp > CityWindow
    THEN ShrinkCities(txns, left + 1, right, CityDropped(cities, txns[left].city))
    ELSE [left |-> left, cities |-> cities]

RECURSIVE CityPass(_, _, _, _)
\* the second for loop of find_suspicious_accounts_optimized from right on
CityPass(txns, right, left, cities) ==
    IF right > Len(txns)
    THEN FALSE
    ELSE LET s == ShrinkCities(txns, left, right,
                               CityAdded(cities, txns[right].city))
         IN  \/ Cardinality(DOMAIN s.cities) > CityLimit
             \/ CityPass(txns, right + 1, s.left, s.cities)

\* find_suspicious_accounts_optimized
find_suspicious_accounts_optimized(txns) ==
    {a \in AccountsOf(txns) :
        LET sorted == SortedByTimestamp(GroupOf(txns, a))
        IN  \/ VelocityPass(sorted, 1, 1, 0)
            \/ CityPass(sorted, 1, 1, EmptyDict)}

\* what a call that was made returned
Returned(ret) == [ret |-> ret]

InitAnalysis ==
    /\ CachesIdle /\ ScenarioIdle /\ LimitersIdle /\ UnionFindIdle /\ ExtrasIdle
    /\ transactions \in ListsOf(Transaction, MaxTxn)
    /\ basic = <<>>
    /\ optimized = <<>>

\* basic_result = find_suspicious_accounts(transactions)
Call_basic ==
    /\ basic = <<>>
    /\ basic' = Returned(find_suspicious_accounts(transactions))
    /\ UNCHANGED <<caches, extras, scenario, limiters, unionfind, transactions, optimized>>

\* optimized_result = find_suspicious_accounts_optimized(transactions)
Call_optimized ==
    /\ optimized = <<>>
    /\ optimized' = Returned(find_suspicious_accounts_optimized(transactions))
    /\ UNCHANGED <<caches, extras, scenario, limiters, unionfind, transactions, basic>>

NextAnalysis ==
    \/ Call_basic
    \/ Call_optimized

SpecAnalysis == InitAnalysis /\ [][NextAnalysis]_vars

TypeOK ==
    /\ impl \in Impls
    /\ Capacity \in Capacities
    /\ StoredKeys \subseteq Keys
    /\ last.op \in {"new", "get", "put"}
    /\ putOnly \in BOOLEAN

(***************************************************************************)
(* Properties.  Every step of Next is one call and sets last to that call, *)
(* so in a step that changes the state last' is the call that was made.    *)
(***************************************************************************)
\* what get(key) would return if it were called now on the object under test
GetNow(key) ==
    CASE impl = "LRUCache" -> LRUCache_get(lru, key)
      [] impl = "LRUCacheSimple" -> LRUCacheSimple_get(simple, key)
      [] OTHER -> LFUCache_get(lfu, key)

\* the key of S that was touched longest ago
Oldest(S) == Head(SelectSeq(order, LAMBDA k : k \in S))

\* the smallest access count of a stored key
MinCount(S) == CHOOSE m \in {count[k] : k \in S} : \A k \in S : m <= count[k]

\* C1: for each of the three classes built with a capacity >= 0, after every
\* get/put call the number of stored keys is at most the capacity.
C1_SizeWithinCapacity ==
    Capacity >= 0 => Cardinality(StoredKeys) <= Capacity

C1_Witness ==
    /\ last.op = "put" /\ last.evicted # NoKey
    /\ Capacity = 2 /\ Cardinality(StoredKeys) = 2

\* C2: in LRUCache with capacity >= 1, a put of an absent key that finds the
\* cache full evicts the stored key whose last touch is the oldest, and
\* only that key.
C2_LRUEvictsOldest ==
    [][(/\ impl = "LRUCache" /\ last'.op = "put"
        /\ lru.capacity >= 1
        /\ last'.key \notin LRUCache_keys(lru)
        /\ Cardinality(LRUCache_keys(lru)) >= lru.capacity)
       => /\ SeqSet(order) = LRUCache_keys(lru)
          /\ last'.evicted = Oldest(LRUCache_keys(lru))
          /\ LRUCache_keys(lru') = (LRUCache_keys(lru) \ {Oldest(LRUCache_keys(lru))}) \cup {last'.key}
      ]_vars

C2_Witness ==
    /\ impl = "LRUCache" /\ lru.capacity = 2
    /\ last.op = "put" /\ last.evicted # NoKey /\ ~last.raised
    /\ last.evicted \notin LRUCache_keys(lru)

\* C3: whenever LFUCache.put evicts, the access count of the victim is the
\* smallest access count of all keys stored before the put.
C3_LFUEvictsMinCount ==
    [][(impl = "LFUCache" /\ last'.op = "put" /\ last'.evicted # NoKey)
       => /\ last'.evicted \in LFUCache_keys(lfu)
          /\ DOMAIN count = LFUCache_keys(lfu)
          /\ \A k \in LFUCache_keys(lfu) : count[last'.evicted] <= count[k]
      ]_vars

C3_Witness ==
    /\ impl = "LFUCache" /\ lfu.capacity = 2
    /\ last.op = "put" /\ last.evicted # NoKey
    /\ \E k \in LFUCache_keys(lfu) : count[k] >= 2

\* C4: when several stored keys share the smallest access count at an
\* eviction of LFUCache, the victim is the one of them touched longest ago.
C4_LFUTieBreak ==
    [][(impl = "LFUCache" /\ last'.op = "put" /\ last'.evicted # NoKey)
       => LET S == LFUCache_keys(lfu)
              M == {k \in S : count[k] = MinCount(S)}
          IN  Cardinality(M) >= 2 => last'.evicted = Oldest(M)
      ]_vars

C4_Witness ==
    /\ impl = "LFUCache" /\ lfu.capacity = 2
    /\ last.op = "put" /\ last.evicted # NoKey
    /\ \E k \in LFUCache_keys(lfu) \ {last.key} : count[k] = 1

\* C5: on an LRUCache of capacity 0 every put returns normally and stores
\* nothing, and every get returns -1.
C5_LRUZeroCapacity ==
    (impl = "LRUCache" /\ lru.capacity = 0)
    => /\ LRUCache_keys(lru) = {}
       /\ last.op = "put" => ~last.raised
       /\ last.op = "get" => (~last.raised /\ last.ret = NotFound)

\* C6: construction with a negative capacity fails; no cache object with a
\* capacity < 0 is ever returned or usable.
C6_NegativeCapacityRejected ==
    Capacity < 0 => (last.op = "new" /\ last.raised)

\* C7: with a capacity >= 1 no call on LRUCache or LFUCache raises: whenever a
\* put would have to evict, LRUCache's tail.prev is a real node whose key
\* is in the dict, and LFUCache's freq_to_keys[min_freq] exists and is
\* not empty.
C7_NoRaise ==
    /\ (impl \in {"LRUCache", "LFUCache"} /\ Capacity >= 1) => ~last.raised
    /\ (impl = "LRUCache" /\ lru.capacity >= 1 /\ Cardinality(LRUCache_keys(lru)) >= lru.capacity)
       => LET t == lru.node[TailId].prev
          IN  /\ t \in (DOMAIN lru.node) \ {HeadId, TailId}
              /\ lru.node[t].key \in DOMAIN lru.cache
    /\ (impl = "LFUCache" /\ lfu.capacity >= 1 /\ Cardinality(LFUCache_keys(lfu)) >= lfu.capacity)
       => /\ lfu.min_freq \in DOMAIN lfu.freq_to_keys
          /\ lfu.freq_to_keys[lfu.min_freq] # <<>>

C7_Witness ==
    /\ impl = "LFUCache" /\ lfu.capacity = 2
    /\ last.op = "put" /\ last.evicted # NoKey /\ ~last.raised
    /\ \E k \in LFUCache_keys(lfu) : lfu.key_to_freq[k] >= 2

\* C8: from an empty cache of capacity N >= 1, after puts only, on at most N
\* distinct keys, every key put is stored and get returns the value of its
\* last put.
C8_RoundTrip ==
    (Capacity >= 1 /\ putOnly /\ Cardinality(DOMAIN lastPut) <= Capacity)
    => /\ StoredKeys = DOMAIN lastPut
       /\ \A k \in DOMAIN lastPut :
             ~GetNow(k).raised /\ GetNow(k).ret = lastPut[k]

C8_Witness ==
    /\ impl = "LRUCache" /\ lru.capacity = 2
    /\ putOnly /\ Cardinality(DOMAIN lastPut) = 2
    /\ last.op = "put" /\ last.key # Oldest(StoredKeys) /\ Len(order) = 2

\* C9: with a capacity >= 1, get(k) called right after put(k, v) returns v.
C9_GetAfterPut ==
    (Capacity >= 1 /\ last.op = "put")
    => (~GetNow(last.key).raised /\ GetNow(last.key).ret = last.value)

C9_Witness ==
    /\ impl = "LRUCacheSimple" /\ simple.capacity >= 1
    /\ last.op = "put" /\ last.evicted # NoKey
    /\ last.key \in StoredKeys

\* C10: get of a key that is not stored returns -1, does not raise and
\* leaves the cache object as it was.
C10_MissLeavesState ==
    [][(last'.op = "get" /\ last'.key \notin StoredKeys)
       => /\ last'.ret = NotFound /\ ~last'.raised
          /\ lru' = lru /\ simple' = simple /\ lfu' = lfu
      ]_vars

C10_Witness ==
    /\ impl = "LFUCache"
    /\ last.op = "get" /\ last.ret = NotFound /\ last.key \notin StoredKeys
    /\ StoredKeys # {}

\* the value an object holds for each of its keys
LRUCache_items(c) == [k \in DOMAIN c.cache |-> c.node[c.cache[k]].value]
LRUCacheSimple_items(c) == [k \in OD_keys(c.cache) |-> c.cache[OD_get(c.cache, k)].value]
LFUCache_items(c) == c.key_to_val

Contents == CASE impl = "LRUCache" -> LRUCache_items(lru)
              [] impl = "LRUCacheSimple" -> LRUCacheSimple_items(simple)
              [] OTHER -> LFUCache_items(lfu)

\* C11: a get that hits returns the key's current value and changes neither
\* the set of stored keys nor any stored value (nor the capacity).
C11_HitKeepsContents ==
    [][(last'.op = "get" /\ last'.key \in StoredKeys)
       => /\ ~last'.raised
          /\ last'.ret = Contents[last'.key]
          /\ Contents' = Contents
          /\ Capacity' = Capacity
      ]_vars

C11_Witness ==
    /\ impl = "LFUCache" /\ Cardinality(StoredKeys) = 2
    /\ last.op = "get" /\ last.key \in StoredKeys
    /\ last.ret = Contents[last.key]
    /\ lfu.key_to_freq[last.key] = 2

\* C12: put(k, v) of an absent key on a full cache (size = capacity >= 1)
\* removes exactly one stored key, stores k with v, leaves every other key
\* and value as it was and the size equal to the capacity.
C12_FullPutReplacesOne ==
    [][(/\ last'.op = "put" /\ Capacity >= 1
        /\ last'.key \notin StoredKeys
        /\ Cardinality(StoredKeys) = Capacity)
       => /\ ~last'.raised
          /\ last'.evicted \in StoredKeys
          /\ StoredKeys' = (StoredKeys \ {last'.evicted}) \cup {last'.key}
          /\ Contents'[last'.key] = last'.value
          /\ \A k \in StoredKeys \ {last'.evicted} : Contents'[k] = Contents[k]
          /\ Cardinality(StoredKeys') = Capacity
      ]_vars

C12_Witness ==
    /\ impl = "LRUCacheSimple" /\ simple.capacity = 2
    /\ last.op = "put" /\ last.evicted # NoKey
    /\ last.evicted \notin StoredKeys /\ last.key \in StoredKeys
    /\ Cardinality(StoredKeys) = 2

\* C13: a stored key leaves the cache only as the victim of a put of a
\* different, absent key made while size = capacity (so never by a get, by
\* a put of a stored key or by a put made while size < capacity), and a
\* put of an absent key while size < capacity adds exactly that key.
C13_KeysLeaveOnlyByEviction ==
    [][LET gone == StoredKeys \ StoredKeys'
       IN  /\ gone # {}
              => /\ last'.op = "put"
                 /\ last'.key \notin StoredKeys
                 /\ Cardinality(StoredKeys) = Capacity
                 /\ gone = {last'.evicted}
                 /\ last'.evicted # last'.key
           /\ (/\ last'.op = "put" /\ last'.key \notin StoredKeys
               /\ Cardinality(StoredKeys) < Capacity)
              => /\ StoredKeys' = StoredKeys \cup {last'.key}
                 /\ Cardinality(StoredKeys') = Cardinality(StoredKeys) + 1
      ]_vars

C13_Witness ==
    /\ impl = "LFUCache" /\ lfu.capacity = 2
    /\ last.op = "put" /\ last.evicted = NoKey
    /\ last.key \in StoredKeys /\ count[last.key] = 1
    /\ Cardinality(StoredKeys) = 2

\* the keys of an LRUCache in list order, most recently used first
LRUCache_recency(c) ==
    LET chain == Chain(c, c.node[HeadId].next, <<>>)
    IN  [i \in 1..Len(chain) |-> c.node[chain[i]].key]

\* C14: in LRUCache, put(k, v) of a stored key replaces its value, keeps the
\* key set (no eviction, even when full) and every other value, and leaves
\* the recency order that a get hit on k would leave, with k most recent.
C14_LRUUpdatePromotes ==
    [][(impl = "LRUCache" /\ last'.op = "put" /\ last'.key \in LRUCache_keys(lru))
       => /\ ~last'.raised /\ last'.evicted = NoKey
          /\ LRUCache_keys(lru') = LRUCache_keys(lru)
          /\ LRUCache_items(lru')[last'.key] = last'.value
          /\ \A k \in LRUCache_keys(lru) \ {last'.key} :
                LRUCache_items(lru')[k] = LRUCache_items(lru)[k]
          /\ LRUCache_recency(lru') = LRUCache_recency(LRUCache_get(lru, last'.key).c)
          /\ Head(LRUCache_recency(lru')) = last'.key
          /\ order'[Len(order')] = last'.key
      ]_vars

C14_Witness ==
    /\ impl = "LRUCache" /\ lru.capacity = 2 /\ Cardinality(LRUCache_keys(lru)) = 2
    /\ last.op = "put" /\ last.evicted = NoKey /\ ~putOnly
    /\ LRUCache_recency(lru)[1] = last.key
    /\ LRUCache_items(lru)[last.key] = last.value

\* C15: in LFUCache, put(k, v) of a stored key replaces its value, raises
\* its frequency by exactly 1, evicts nothing (even when full), and counts
\* as a touch: k becomes the most recently touched key of its new bucket.
C15_LFUUpdateCounts ==
    [][(impl = "LFUCache" /\ last'.op = "put" /\ last'.key \in LFUCache_keys(lfu))
       => /\ ~last'.raised /\ last'.evicted = NoKey
          /\ LFUCache_keys(lfu') = LFUCache_keys(lfu)
          /\ lfu'.key_to_val[last'.key] = last'.value
          /\ lfu'.key_to_freq[last'.key] = lfu.key_to_freq[last'.key] + 1
          /\ \A k \in LFUCache_keys(lfu) \ {last'.key} :
                /\ lfu'.key_to_val[k] = lfu.key_to_val[k]
                /\ lfu'.key_to_freq[k] = lfu.key_to_freq[k]
          /\ LET f == lfu'.key_to_freq[last'.key]
             IN  /\ f \in DOMAIN lfu'.freq_to_keys
                 /\ lfu'.freq_to_keys[f] # <<>>
                 /\ lfu'.freq_to_keys[f][Len(lfu'.freq_to_keys[f])] = last'.key
      ]_vars

C15_Witness ==
    /\ impl = "LFUCache" /\ lfu.capacity = 2
    /\ last.op = "put" /\ last.evicted = NoKey
    /\ last.key \in LFUCache_keys(lfu) /\ lfu.key_to_freq[last.key] = 2
    /\ 2 \in DOMAIN lfu.freq_to_keys /\ Len(lfu.freq_to_keys[2]) = 2

\* what get(key) would return if it were called on the object after the step
GetNext(key) ==
    CASE impl' = "LRUCache" -> LRUCache_get(lru', key)
      [] impl' = "LRUCacheSimple" -> LRUCacheSimple_get(simple', key)
      [] OTHER -> LFUCache_get(lfu', key)

\* C16: in LRUCache and LRUCacheSimple with capacity >= 2, when a get(k) that
\* hit is followed at once by a put of an absent key on the full cache, k
\* is not the key evicted and get(k) still returns its value.
C16_GetProtects ==
    [][(/\ impl \in {"LRUCache", "LRUCacheSimple"} /\ Capacity >= 2
        /\ last.op = "get" /\ last.key \in StoredKeys
        /\ last'.op = "put" /\ last'.key \notin StoredKeys
        /\ Cardinality(StoredKeys) = Capacity)
       => \A k \in Keys :
             k = last.key
             => /\ last'.evicted \in StoredKeys \ {k}
                /\ k \in StoredKeys'
                /\ ~GetNext(k).raised
                /\ GetNext(k).ret = Contents[k]
      ]_vars

C16_Witness ==
    /\ impl = "LRUCache" /\ lru.capacity = 2 /\ Cardinality(LRUCache_keys(lru)) = 2
    /\ last.op = "get" /\ last.key \in LRUCache_keys(lru) /\ ~last.raised
    /\ LRUCache_recency(lru)[1] = last.key

\* C17: an empty LRUCache of capacity N >= 1, after N + 1 puts of pairwise
\* distinct keys and no get: the key put first is gone (get misses) and get
\* of each of the other N keys returns its value.
C17_FirstInsertedEvicted ==
    (impl = "LRUCache" /\ lru.capacity >= 1 /\ DistinctPuts /\ Len(putSeq) = lru.capacity + 1)
    => /\ putSeq[1] \notin LRUCache_keys(lru)
       /\ LRUCache_get(lru, putSeq[1]).ret = NotFound
       /\ \A i \in 2..Len(putSeq) :
             /\ putSeq[i] \in LRUCache_keys(lru)
             /\ ~LRUCache_get(lru, putSeq[i]).raised
             /\ LRUCache_get(lru, putSeq[i]).ret = lastPut[putSeq[i]]

C17_Witness ==
    /\ impl = "LRUCache" /\ lru.capacity = 2
    /\ DistinctPuts /\ Len(putSeq) = 3
    /\ last.op = "put" /\ last.evicted = putSeq[1]

\* C18: on an LFUCache of capacity 0 every put returns without error and
\* changes nothing (the object stays as constructed), and every get, also
\* the one right after a put of the same key, returns -1.
C18_LFUZeroCapacity ==
    (impl = "LFUCache" /\ lfu.capacity = 0)
    => /\ lfu = LFUCache_init(0)
       /\ ~last.raised
       /\ last.op = "get" => last.ret = NotFound
       /\ last.op = "put" => LFUCache_get(lfu, last.key) = Result(lfu, NotFound, FALSE, NoKey)

C18_Witness ==
    /\ impl = "LFUCache" /\ lfu.capacity = 0
    /\ last.op = "put" /\ ~last.raised
    /\ last.key \notin LFUCache_keys(lfu)

\* C19: in LRUCache.put and LFUCache.put of an absent key on a full cache
\* (capacity >= 1) the victim is out of both the lookup index and the
\* ordering structure before the new key is in either: after no statement
\* of the put does either structure hold more than capacity keys, or the
\* new key together with the victim or with all of the old keys.
C19_EvictBeforeInsert ==
    /\ (impl = "LRUCache" /\ lru.capacity >= 1
        /\ Cardinality(LRUCache_keys(lru)) = lru.capacity)
       => \A key \in Keys \ LRUCache_keys(lru), value \in Values :
             \A steps \in {LRUCache_put_steps(lru, key, value)},
                r \in {LRUCache_put(lru, key, value)} :
                 /\ ~r.raised /\ r.c = Collect(steps[Len(steps)])
                 /\ \A i \in 1..Len(steps) :
                       \A in \in {LRUCache_keys(steps[i]) \cup LRUCache_listed(steps[i])} :
                           /\ Cardinality(LRUCache_keys(steps[i])) <= lru.capacity
                           /\ Cardinality(LRUCache_listed(steps[i])) <= lru.capacity
                           /\ key \in in => (r.evicted \notin in
                                              /\ ~(LRUCache_keys(lru) \subseteq in))
    /\ (impl = "LFUCache" /\ lfu.capacity >= 1
        /\ Cardinality(LFUCache_keys(lfu)) = lfu.capacity)
       => \A key \in Keys \ LFUCache_keys(lfu), value \in Values :
             \A steps \in {LFUCache_put_steps(lfu, key, value)},
                r \in {LFUCache_put(lfu, key, value)} :
                 /\ ~r.raised /\ r.c = steps[Len(steps)]
                 /\ \A i \in 1..Len(steps) :
                       \A in \in {LFUCache_keys(steps[i]) \cup DOMAIN steps[i].key_to_freq
                                     \cup LFUCache_listed(steps[i])} :
                           /\ Cardinality(LFUCache_keys(steps[i])) <= lfu.capacity
                           /\ Cardinality(DOMAIN steps[i].key_to_freq) <= lfu.capacity
                           /\ Cardinality(LFUCache_listed(steps[i])) <= lfu.capacity
                           /\ key \in in => (r.evicted \notin in
                                              /\ ~(LFUCache_keys(lfu) \subseteq in))

C19_Witness ==
    /\ impl = "LRUCache" /\ lru.capacity = 2
    /\ Cardinality(LRUCache_keys(lru)) = 2
    /\ \E key \in Keys \ LRUCache_keys(lru) :
          /\ LRUCache_put(lru, key, 0).evicted \in LRUCache_keys(lru)
          /\ key \in LRUCache_listed(LRUCache_put_steps(lru, key, 0)[9])
          /\ key \notin LRUCache_listed(LRUCache_put_steps(lru, key, 0)[8])

\* C20: the result of get tells a hit from a miss, for every key and every
\* stored value: a get that returned returned -1 exactly when its key is not
\* stored (a get neither stores nor removes a key).
C20_GetTellsHitFromMiss ==
    (last.op = "get" /\ ~last.raised)
    => (last.ret = NotFound <=> last.key \notin StoredKeys)

\* what the scenario's calls return according to the claim: every put returns
\* normally, and the gets give the value of key 1, a miss, the value of key 3,
\* a miss, the value of key 3 and the value of key 4
ScriptExpected ==
    LET none == [ret |-> 0, raised |-> FALSE]
        hit(i) == [ret |-> script[i], raised |-> FALSE]
        miss == [ret |-> NotFound, raised |-> FALSE]
    IN  <<none, none, hit(1), none, miss, hit(3), none, miss, hit(3), hit(4)>>

\* C21: on an LFUCache(2) the scenario put(1,1) put(2,2) get(1) put(3,3)
\* get(2) get(3) put(4,4) get(1) get(3) get(4) gives 1, miss, 3, miss, 3, 4
\* for its gets; after get(3) keys 1 and 3 both have frequency 2, and
\* put(4,4) evicts key 1, leaving keys 3 and 4.
C21_LFUScenario ==
    script # <<>>
    => /\ rets = SubSeq(ScriptExpected, 1, pc)
       /\ pc = 6 => /\ LFUCache_keys(lfu) = {script[1], script[3]}
                    /\ lfu.key_to_freq[script[1]] = 2
                    /\ lfu.key_to_freq[script[3]] = 2
       /\ pc >= 7 => LFUCache_keys(lfu) = {script[3], script[4]}

C21_Witness ==
    /\ script = <<1, 2, 3, 4>>
    /\ pc = Len(ScriptCalls)
    /\ [i \in 1..6 |-> rets[<<3, 5, 6, 8, 9, 10>>[i]].ret] = <<1, NotFound, 3, NotFound, 3, 4>>

\* the number of user u's requests answered True with a timestamp in [from, to]
GrantedIn(u, from, to) ==
    Cardinality({i \in 1..Len(log[u]) : log[u][i].ret /\ log[u][i].time >= from /\ log[u][i].time <= to})

\* C22: SlidingWindowRateLimiter: for every user and every instant t so far,
\* the number of the user's requests answered True with a timestamp in
\* [t - window_seconds, t] is at most max_requests.
C22_SlidingWindowBound ==
    sliding # <<>>
    => \A u \in Users, t \in 0..now :
          GrantedIn(u, t - sliding.window_seconds, t) <= sliding.max_requests

C22_Witness ==
    /\ sliding # <<>>
    /\ sliding.max_requests = 2 /\ sliding.window_seconds = 1
    /\ reply.op = "is_allowed" /\ ~reply.ret
    /\ GrantedIn(reply.user, now - 1, now) = 2
    /\ GrantedIn(reply.user, now - 1, now - 1) = 1

\* C24: TokenBucketRateLimiter: after every is_allowed call the token count
\* of each user lies between 0 and bucket_capacity, and as long as all calls
\* of a user were made at one instant, the first bucket_capacity of them were
\* answered True and every later one False.
C24_TokensWithinBucket ==
    bucket # <<>>
    => \A u \in Users :
          /\ u \in DOMAIN bucket.buckets
             => (bucket.buckets[u] >= 0 /\ bucket.buckets[u] <= FullBucket(bucket))
          /\ (Len(log[u]) > 0 /\ log[u][1].time = now)
             => \A i \in 1..Len(log[u]) : log[u][i].ret = (i <= bucket.bucket_capacity)

C24_Witness ==
    /\ bucket # <<>>
    /\ bucket.bucket_capacity = 2 /\ bucket.refill_rate = 1
    /\ reply.op = "is_allowed" /\ ~reply.ret
    /\ Len(log[reply.user]) = 3 /\ log[reply.user][1].time = now
    /\ log[reply.user][2].ret
    /\ bucket.buckets[reply.user] = 0

\* the part of a limiter object that belongs to user u
SlidingOf(c, u) == IF u \in DOMAIN c.user_requests THEN c.user_requests[u] ELSE <<>>
BucketOf(c, u) ==
    IF u \in DOMAIN c.buckets THEN <<c.buckets[u], c.last_refill[u]>> ELSE <<>>

\* C23: SlidingWindowRateLimiter and TokenBucketRateLimiter: a run with any
\* calls of the other users answers every is_allowed call of one user as
\* the run does in which that user makes the same calls at the same times
\* and is alone (and holds the same requests or tokens for that user); so
\* any two runs that agree on the user's calls answer them alike.
C23_UsersIndependent ==
    reply2 # <<>>
    => /\ reply = reply2
       /\ sliding # <<>> => SlidingOf(sliding, watched) = SlidingOf(sliding2, watched)
       /\ bucket # <<>> => BucketOf(bucket, watched) = BucketOf(bucket2, watched)

C23_Witness ==
    /\ reply2 # <<>> /\ sliding # <<>>
    /\ sliding.max_requests = 1
    /\ reply.op = "is_allowed" /\ reply.ret /\ reply.time = now
    /\ \E u \in Users \ {watched} :
          SlidingOf(sliding, u) = <<now>> /\ SlidingOf(sliding2, u) = <<>>

RECURSIVE UF_root(_, _)
\* the root that the parent pointers lead to from x, read without calling
\* find; an element the object has not seen is alone in its set
UF_root(u, x) ==
    IF x \notin DOMAIN u.parent \/ u.parent[x] = x
    THEN x
    ELSE UF_root(u, u.parent[x])

\* two objects divide the elements into the same sets
SamePartition(a, b) ==
    \A x, y \in Elems :
        (UF_root(a, x) = UF_root(a, y)) <=> (UF_root(b, x) = UF_root(b, y))

\* C25: after any sequence of union and find calls, find(x) == find(y) holds
\* exactly when x and y are linked by the reflexive, symmetric, transitive
\* closure of the union calls made so far, and a call of find leaves the
\* partition as it was.
C25_FindIffLinked ==
    \A x, y \in Elems :
        LET fx == UnionFind_find(uf, x)
            fy == UnionFind_find(fx.uf, y)
        IN  /\ (fx.root = fy.root) <=> (y \in linked[x])
            /\ SamePartition(uf, fx.uf)

\* a find has just compressed a path: the root has rank 2 and all the other
\* elements point straight at it
C25_Witness ==
    /\ ufcall.op = "find"
    /\ DOMAIN uf.parent = Elems
    /\ \E root \in Elems :
          /\ uf.rank[root] = 2
          /\ \A e \in Elems : uf.parent[e] = root
          /\ linked[root] = Elems

\* C26: for every list of transactions find_suspicious_accounts_optimized
\* returns the same set of account ids as find_suspicious_accounts.
C26_OptimizedMatchesBasic ==
    (basic # <<>> /\ optimized # <<>>) => optimized.ret = basic.ret

\* the frequencies of the stored keys
LFU_stored_freqs(c) == {c.key_to_freq[k] : k \in DOMAIN c.key_to_val}

\* the frequencies whose bucket holds a key
LFU_nonempty_buckets(c) == {f \in DOMAIN c.freq_to_keys : c.freq_to_keys[f] # <<>>}

\* C27: after every get or put that leaves an LFUCache non-empty, min_freq is
\* the smallest frequency of a stored key, which is the smallest key of a
\* non-empty bucket of freq_to_keys.
C27_MinFreqIsSmallest ==
    (impl = "LFUCache" /\ LFUCache_keys(lfu) # {})
    => /\ lfu.min_freq \in LFU_stored_freqs(lfu)
       /\ \A f \in LFU_stored_freqs(lfu) : lfu.min_freq <= f
       /\ lfu.min_freq \in LFU_nonempty_buckets(lfu)
       /\ \A f \in LFU_nonempty_buckets(lfu) : lfu.min_freq <= f

\* a call has emptied the bucket of frequency 1 and moved min_freq on: two
\* keys are stored, both with frequency 2
C27_Witness ==
    /\ impl = "LFUCache"
    /\ Cardinality(LFUCache_keys(lfu)) = 2
    /\ lfu.min_freq = 2
    /\ 1 \in DOMAIN lfu.freq_to_keys

\* C28: after every operation on an LFUCache freq_to_keys holds no empty
\* bucket, so there are no more buckets than distinct frequencies of stored
\* keys, and hence no more than the capacity.
C28_NoEmptyBucket ==
    impl = "LFUCache"
    => /\ \A f \in DOMAIN lfu.freq_to_keys : lfu.freq_to_keys[f] # <<>>
       /\ Cardinality(DOMAIN lfu.freq_to_keys) <= Cardinality(LFU_stored_freqs(lfu))
       /\ lfu.capacity >= 0 => Cardinality(DOMAIN lfu.freq_to_keys) <= lfu.capacity

\* the frequencies in whose bucket key is listed
LFU_buckets_of(c, key) ==
    {f \in DOMAIN c.freq_to_keys : key \in SeqSet(c.freq_to_keys[f])}

\* C29: after every operation on an LFUCache key_to_val and key_to_freq have
\* the same keys, every stored key k is listed in the bucket
\* freq_to_keys[key_to_freq[k]] and in no other, once, and no bucket lists a
\* key that is not stored.
C29_BucketsMatchFrequencies ==
    impl = "LFUCache"
    => /\ DOMAIN lfu.key_to_val = DOMAIN lfu.key_to_freq
       /\ \A k \in DOMAIN lfu.key_to_val :
             LFU_buckets_of(lfu, k) = {lfu.key_to_freq[k]}
       /\ \A f \in DOMAIN lfu.freq_to_keys :
             /\ SeqSet(lfu.freq_to_keys[f]) \subseteq DOMAIN lfu.key_to_val
             /\ Cardinality(SeqSet(lfu.freq_to_keys[f])) = Len(lfu.freq_to_keys[f])

\* a key has moved to the bucket of frequency 2 while another stays in the
\* bucket of frequency 1
C29_Witness ==
    /\ impl = "LFUCache"
    /\ \E k1, k2 \in DOMAIN lfu.key_to_val :
          /\ lfu.key_to_freq[k1] = 1
          /\ lfu.key_to_freq[k2] = 2

\* the nodes of an LRUCache from head.next on, following next
LRUCache_chain(c) == Chain(c, c.node[HeadId].next, <<>>)

\* C30: after every operation on an LRUCache the nodes met from head via next
\* up to tail are exactly the nodes the dict holds, one for each stored key
\* and carrying that key, none twice; prev links mirror next links; the
\* sentinels are not in the dict, and _pop_tail never returns one.
C30_ListMatchesDict ==
    impl = "LRUCache"
    => LET chain == LRUCache_chain(lru)
           last_node == IF chain = <<>> THEN HeadId ELSE chain[Len(chain)]
       IN  /\ lru.node[last_node].next = TailId
           /\ SeqSet(chain) = {lru.cache[k] : k \in DOMAIN lru.cache}
           /\ Len(chain) = Cardinality(DOMAIN lru.cache)
           /\ \A k \in DOMAIN lru.cache :
                 /\ lru.cache[k] \notin {HeadId, TailId}
                 /\ lru.node[lru.cache[k]].key = k
           /\ \A n \in SeqSet(chain) \cup {HeadId} :
                 lru.node[lru.node[n].next].prev = n
           /\ lru.node[HeadId].prev = None /\ lru.node[TailId].next = None
           /\ \A p \in {_pop_tail(lru)} :
                 ~p.raised => p.lru \notin {HeadId, TailId}

\* a full list of two nodes, from which _pop_tail returns the node of the
\* least recently used key
C30_Witness ==
    /\ impl = "LRUCache"
    /\ lru.capacity = 2
    /\ Len(LRUCache_chain(lru)) = 2
    /\ \E p \in {_pop_tail(lru)} :
          ~p.raised /\ p.lru = LRUCache_chain(lru)[2]

\* C31: in LFUCache key_to_freq[k] of a stored key k is 1 plus the number of
\* get hits and put updates on k since k was last inserted; a put that
\* inserts a key leaves it at frequency 1, also when the key was evicted
\* before at a higher frequency, and leaves min_freq at 1.
C31_FrequencyCountsAccesses ==
    impl = "LFUCache"
    => /\ DOMAIN count = LFUCache_keys(lfu)
       /\ \A k \in LFUCache_keys(lfu) : lfu.key_to_freq[k] = count[k]
       /\ (/\ last.op = "put" /\ last.key \in LFUCache_keys(lfu)
           /\ count[last.key] = 1)
          => /\ lfu.key_to_freq[last.key] = 1
             /\ lfu.min_freq = 1

\* a key evicted at frequency 2 has just been put again
C31_Witness ==
    /\ impl = "LFUCache"
    /\ last.op = "put" /\ last.key \in LFUCache_keys(lfu)
    /\ last.key \in forgotten
    /\ count[last.key] = 1

\* the keys of an LRUCacheSimple, most recently used first
LRUCacheSimple_recency(c) ==
    [i \in 1..Len(c.cache) |-> c.cache[Len(c.cache) + 1 - i].key]

\* C32: for every capacity >= 1 and every sequence of get and put calls, an
\* LRUCache and an LRUCacheSimple fed the same calls return the same for
\* every get and hold the same keys, values and recency order after every
\* call.
C32_SimpleMatchesLinked ==
    (both # <<>> /\ lru.capacity >= 1)
    => /\ both.lru.raised = both.simple.raised
       /\ both.op = "get" => both.lru.ret = both.simple.ret
       /\ LRUCache_keys(lru) = LRUCacheSimple_keys(simple)
       /\ LRUCache_items(lru) = LRUCacheSimple_items(simple)
       /\ LRUCache_recency(lru) = LRUCacheSimple_recency(simple)

\* a put on the two full caches has evicted the same key from each
C32_Witness ==
    /\ both # <<>> /\ lru.capacity = 2
    /\ both.op = "put"
    /\ both.lru.evicted # NoKey
    /\ both.simple.evicted = both.lru.evicted
    /\ Len(simple.cache) = 2

\* C33: in LRUCache a get(k) of the key that is already the most recently
\* used leaves the recency order, and the whole object, as it was; so a
\* second get(k) right after a get(k) that hit changes nothing and returns
\* the same value.
C33_GetOfMostRecentIsNoOp ==
    both # <<>>
    => /\ \A k \in LRUCache_keys(lru) :
             \A r \in {LRUCache_get(lru, k)} :
                 /\ ~r.raised
                 /\ LRUCache_recency(lru)[1] = k => r.c = lru
                 /\ \A r2 \in {LRUCache_get(r.c, k)} :
                       r2.c = r.c /\ r2.ret = r.ret /\ ~r2.raised
       /\ (both.op = "get" /\ both.lru.ret # NotFound /\ ~both.lru.raised)
          => \A r \in {LRUCache_get(lru, both.key)} :
                 r.c = lru /\ r.ret = both.lru.ret

\* a get has hit one of two stored keys and made it the most recently used
C33_Witness ==
    /\ both # <<>> /\ both.op = "get"
    /\ both.lru.ret # NotFound /\ ~both.lru.raised
    /\ Cardinality(LRUCache_keys(lru)) = 2
    /\ LRUCache_recency(lru)[1] = both.key

\* C34: SlidingWindowRateLimiter called by several threads for one user, for
\* every interleaving, the first calls included: no more than max_requests
\* of the calls with a timestamp in a window [t - window_seconds, t] return
\* True.
C34_ConcurrentWindowBound ==
    threads # <<>>
    => \A t \in 0..now :
          GrantedIn(TheUser, t - sliding.window_seconds, t) <= sliding.max_requests

\* what get_remaining(u) answers on the limiter c at the instant t
RemainingAt(c, u, t) == SlidingWindowRateLimiter_get_remaining(c, u, t).ret

\* C35: SlidingWindowRateLimiter: a get_remaining(u) call leaves every user's
\* recorded requests as they were and returns max_requests minus the number
\* of u's requests answered True with a timestamp >= now - window_seconds,
\* or 0 when that is negative; an is_allowed(u) call returns True exactly
\* when get_remaining(u) at that instant is > 0, and get_remaining(u) at that
\* instant is then lower by 1.
C35_RemainingAgrees ==
    [][/\ (calls' = calls + 1 /\ reply'.op = "get_remaining")
          => /\ \A u \in Users : SlidingOf(sliding', u) = SlidingOf(sliding, u)
             /\ LET left == sliding.max_requests
                            - GrantedIn(reply'.user, now - sliding.window_seconds, now)
                IN  reply'.ret = IF left > 0 THEN left ELSE 0
       /\ (calls' = calls + 1 /\ reply'.op = "is_allowed")
          => /\ reply'.ret <=> RemainingAt(sliding, reply'.user, now) > 0
             /\ reply'.ret => RemainingAt(sliding', reply'.user, now)
                              = RemainingAt(sliding, reply'.user, now) - 1
      ]_vars

\* get_remaining was asked when one of the user's two recorded requests had
\* expired, and answered 1 of 2
C35_Witness ==
    /\ sliding # <<>> /\ threads = <<>>
    /\ reply.op = "get_remaining"
    /\ sliding.max_requests = 2
    /\ reply.ret = 1
    /\ Len(SlidingOf(sliding, reply.user)) = 2

\* the timestamps of the calls of a user's log that were answered True
AllowedTimes(calls_) ==
    LET allowed == SelectSeq(calls_, LAMBDA e : e.ret)
    IN  [i \in 1..Len(allowed) |-> allowed[i].time]

IsSuffix(a, b) ==
    /\ Len(a) <= Len(b)
    /\ a = SubSeq(b, Len(b) - Len(a) + 1, Len(b))

\* C36: SlidingWindowRateLimiter with max_requests >= 1: after an is_allowed
\* call the user's deque holds timestamps of requests answered True only (the
\* latest of them), and a call made more than window_seconds after the
\* user's latest request answered True is answered True, whatever was denied
\* in between.
C36_AllowedAfterWindow ==
    [][(calls' = calls + 1 /\ reply'.op = "is_allowed" /\ sliding.max_requests >= 1)
       => LET u == reply'.user
              past == AllowedTimes(log[u])
          IN  /\ IsSuffix(SlidingOf(sliding', u), AllowedTimes(log'[u]))
              /\ (past # <<>> /\ now - past[Len(past)] > sliding.window_seconds)
                 => reply'.ret
      ]_vars

\* one request per window: allowed, then denied within the window, then
\* allowed again once the window of the first has passed
C36_Witness ==
    /\ sliding # <<>> /\ threads = <<>>
    /\ reply.op = "is_allowed" /\ reply.ret
    /\ sliding.max_requests = 1
    /\ LET calls_ == log[reply.user]
       IN  /\ Len(calls_) = 3
           /\ calls_[1].ret /\ ~calls_[2].ret /\ calls_[3].ret
           /\ calls_[3].time - calls_[1].time > sliding.window_seconds

\* C37: LeakyBucketRateLimiter, the clock never going back and leak_rate >= 0:
\* after every is_allowed call the level of each user's bucket is at least 0
\* and at most bucket_capacity.
C37_LevelWithinCapacity ==
    leaky # <<>>
    => \A u \in DOMAIN leaky.buckets :
          leaky.buckets[u] >= 0 /\ leaky.buckets[u] <= FullBucket(leaky)

====
